---------------------------- MODULE Spec2Model ----------------------------
(***************************************************************************)
(* A model of the recovery / normalisation engine of viewer.py.            *)
(*                                                                         *)
(* Text is modelled character by character: a Python str is a sequence of  *)
(* characters, a character is a TLA+ string.  An ASCII character is the    *)
(* one-character string; the character NUL is "NUL"; a UTF-16 code unit    *)
(* whose high byte is not zero is the string "W" \o lo \o hi.  A bytes     *)
(* object is a sequence of such one-byte strings.                          *)
(*                                                                         *)
(* A JSON value (what json.loads returns) is a record [t, v]:              *)
(*   t = "str"   v = the characters                                        *)
(*   t = "num"   v = the decimal digits of a non-negative int              *)
(*   t = "null"  v = <<>>                                                  *)
(*   t = "list"  v = the sequence of the items                             *)
(*   t = "dict"  v = the sequence of [k |-> key, val |-> value] members,   *)
(*                   in insertion order, keys unique                       *)
(***************************************************************************)
EXTENDS Naturals, Sequences, FiniteSets

-----------------------------------------------------------------------------
(* Characters and str helpers                                              *)

WS == {" ", "\n", "\t", "\r"}

Digits == <<"0", "1", "2", "3", "4", "5", "6", "7", "8", "9">>

IsDigit(c) == \E k \in 1..10 : Digits[k] = c

DigitVal(c) == (CHOOSE k \in 1..10 : Digits[k] = c) - 1

UpperLetters == <<"A", "B", "C", "D", "E", "F", "G", "H", "I", "J", "K", "L", "M",
                  "N", "O", "P", "Q", "R", "S", "T", "U", "V", "W", "X", "Y", "Z">>

LowerLetters == <<"a", "b", "c", "d", "e", "f", "g", "h", "i", "j", "k", "l", "m",
                  "n", "o", "p", "q", "r", "s", "t", "u", "v", "w", "x", "y", "z">>

LowerChar(c) ==
    IF \E k \in 1..26 : UpperLetters[k] = c
    THEN LowerLetters[CHOOSE k \in 1..26 : UpperLetters[k] = c]
    ELSE c

\* str.lower()
Lower(s) == [k \in 1..Len(s) |-> LowerChar(s[k])]

\* str.strip(): the characters from the first to the last non-blank one
Strip(s) ==
    LET keep == {k \in 1..Len(s) : s[k] \notin WS}
    IN  IF keep = {} THEN <<>>
        ELSE LET lo == CHOOSE k \in keep : \A m \in keep : k <= m
                 hi == CHOOSE k \in keep : \A m \in keep : m <= k
             IN  SubSeq(s, lo, hi)

\* s[:n]
Prefix(s, n) == SubSeq(s, 1, IF Len(s) < n THEN Len(s) ELSE n)

\* The concatenation of the sequences ss[lo..hi], by halving (the depth of the
\* evaluation stays logarithmic in the number of parts).
RECURSIVE ConcatRange(_, _, _)
ConcatRange(ss, lo, hi) ==
    IF lo > hi THEN <<>>
    ELSE IF lo = hi THEN ss[lo]
    ELSE LET mid == (lo + hi) \div 2
         IN  ConcatRange(ss, lo, mid) \o ConcatRange(ss, mid + 1, hi)

Concat(ss) == ConcatRange(ss, 1, Len(ss))

\* sep.join(ss)
Join(sep, ss) ==
    Concat([k \in 1..Len(ss) |-> IF k = 1 THEN ss[k] ELSE sep \o ss[k]])

\* needle in hay (substring test)
Contains(hay, needle) ==
    \E p \in 1..(Len(hay) + 1) :
        /\ p + Len(needle) - 1 <= Len(hay)
        /\ \A k \in 1..Len(needle) : hay[p + k - 1] = needle[k]

-----------------------------------------------------------------------------
(* JSON values                                                             *)

JStr(s) == [t |-> "str", v |-> s]

JNum(d) == [t |-> "num", v |-> d]

JNull == [t |-> "null", v |-> <<>>]

JList(items) == [t |-> "list", v |-> items]

JDict(members) == [t |-> "dict", v |-> members]

Member(key, value) == [k |-> key, val |-> value]

\* isinstance(x, str), isinstance(x, dict), ...
IsStr(x) == x.t = "str"

IsNum(x) == x.t = "num"

IsDict(x) == x.t = "dict"

IsList(x) == x.t = "list"

\* key in obj
HasKey(obj, key) == \E m \in 1..Len(obj.v) : obj.v[m].k = key

\* obj.get(key): None (JNull) when the key is absent
Get(obj, key) ==
    IF HasKey(obj, key)
    THEN obj.v[CHOOSE m \in 1..Len(obj.v) : obj.v[m].k = key].val
    ELSE JNull

-----------------------------------------------------------------------------
(* _iso_from_ts: heterogeneous timestamps to one canonical instant         *)
(*                                                                         *)
(* Python ints are unbounded, so an int is kept as its decimal digits (no  *)
(* leading zeros) and compared by length, then digit by digit.  The result *)
(* of datetime.fromtimestamp(x).isoformat() is kept as the instant it      *)
(* prints, [sec, ms]: whole seconds since the epoch and the milliseconds.  *)
(* The returned str is a record [k, sec, ms, s]: k = "empty" is "", k =    *)
(* "instant" is an ISO string, k = "text" is the str s passed through.     *)

\* int(s) of a digit string: the digits without the leading zeros
Canon(d) ==
    LET nz == {k \in 1..Len(d) : d[k] # "0"}
    IN  IF nz = {} THEN <<"0">>
        ELSE SubSeq(d, CHOOSE k \in nz : \A m \in nz : k <= m, Len(d))

\* a > b, for ints given as canonical digits
NumGt(a, b) ==
    \/ Len(a) > Len(b)
    \/ /\ Len(a) = Len(b)
       /\ \E k \in 1..Len(a) :
            /\ DigitVal(a[k]) > DigitVal(b[k])
            /\ \A m \in 1..(k - 1) : a[m] = b[m]

\* 1_000_000_000_000
MsThreshold == <<"1", "0", "0", "0", "0", "0", "0", "0", "0", "0", "0", "0", "0">>

\* The last second datetime can hold (9999-12-31T23:59:59): fromtimestamp raises
\* beyond it, and the except clause turns that into "".
MaxEpochSec == <<"2", "5", "3", "4", "0", "2", "3", "0", "0", "7", "9", "9">>

TsEmpty == [k |-> "empty", sec |-> <<>>, ms |-> <<>>, s |-> <<>>]

TsInstant(sec, ms) == [k |-> "instant", sec |-> sec, ms |-> ms, s |-> <<>>]

TsText(s) == [k |-> "text", sec |-> <<>>, ms |-> <<>>, s |-> s]

\* try: datetime.fromtimestamp(x).isoformat()  except Exception: ""
FromTimestamp(sec, ms) ==
    IF NumGt(sec, MaxEpochSec) THEN TsEmpty ELSE TsInstant(sec, ms)

\* n / 1000.0 for an int above the threshold (13 digits or more)
DivThousand(n) == SubSeq(n, 1, Len(n) - 3)

ModThousand(n) == SubSeq(n, Len(n) - 2, Len(n))

\* (a mutant: the value is never divided)
EpochToIsoNoDiv(n) == FromTimestamp(n, <<"0", "0", "0">>)

EpochToIso(n) ==
    IF NumGt(n, MsThreshold)
    THEN FromTimestamp(DivThousand(n), ModThousand(n))
    ELSE FromTimestamp(n, <<"0", "0", "0">>)

\* re.fullmatch(r"\d{10,16}", s)
IsEpochDigits(s) ==
    /\ Len(s) >= 10
    /\ Len(s) <= 16
    /\ \A k \in 1..Len(s) : IsDigit(s[k])

\* (isinstance(True, int) holds: true and false are the ints 1 and 0)
iso_from_ts(ts) ==
    IF IsNum(ts) THEN EpochToIso(ts.v)
    ELSE IF ts.t = "bool"
    THEN EpochToIso(IF ts.v = <<"t", "r", "u", "e">> THEN <<"1">> ELSE <<"0">>)
    ELSE IF IsStr(ts)
    THEN LET s == Strip(ts.v)
         IN  IF s = <<>> THEN TsEmpty
             ELSE IF IsEpochDigits(s) THEN EpochToIso(Canon(s))
             ELSE TsText(s)
    ELSE TsEmpty

TsKeys == << <<"t", "i", "m", "e", "s", "t", "a", "m", "p">>,
             <<"t", "i", "m", "e">>,
             <<"c", "r", "e", "a", "t", "e", "d", "_", "a", "t">>,
             <<"c", "r", "e", "a", "t", "e", "d", "A", "t">>,
             <<"t", "s">> >>

\* The first key, in the order of TsKeys, that is present and parses non-empty.
extract_ts_from_obj(obj) ==
    IF ~IsDict(obj) THEN TsEmpty
    ELSE LET hits == {k \in 1..Len(TsKeys) :
                        /\ HasKey(obj, TsKeys[k])
                        /\ iso_from_ts(Get(obj, TsKeys[k])) # TsEmpty}
         IN  IF hits = {} THEN TsEmpty
             ELSE iso_from_ts(Get(obj, TsKeys[CHOOSE k \in hits : \A m \in hits : k <= m]))

-----------------------------------------------------------------------------
(* _guess_role                                                             *)

kMessage == <<"m", "e", "s", "s", "a", "g", "e">>

kRole == <<"r", "o", "l", "e">>

kSender == <<"s", "e", "n", "d", "e", "r">>

kAuthor == <<"a", "u", "t", "h", "o", "r">>

kType == <<"t", "y", "p", "e">>

sUser == <<"u", "s", "e", "r">>

sHuman == <<"h", "u", "m", "a", "n">>

sAssistant == <<"a", "s", "s", "i", "s", "t", "a", "n", "t">>

sClaude == <<"c", "l", "a", "u", "d", "e">>

sAi == <<"a", "i">>

sDeveloper == <<"d", "e", "v", "e", "l", "o", "p", "e", "r">>

sDev == <<"d", "e", "v">>

sSystem == <<"s", "y", "s", "t", "e", "m">>

sHumanMessage == <<"h", "u", "m", "a", "n", "_", "m", "e", "s", "s", "a", "g", "e">>

sAssistantMessage == <<"a", "s", "s", "i", "s", "t", "a", "n", "t", "_",
                       "m", "e", "s", "s", "a", "g", "e">>

sSystemMessage == <<"s", "y", "s", "t", "e", "m", "_", "m", "e", "s", "s", "a", "g", "e">>

\* The four-way if chain of lines 216-223 and 228-235 on a lower-cased str;
\* "none" when no branch returns.
RoleAlias(low) ==
    IF low \in {sUser, sHuman} THEN "user"
    ELSE IF low \in {sAssistant, sClaude, sAi} THEN "assistant"
    ELSE IF low \in {sDeveloper, sDev} THEN "developer"
    ELSE IF low = sSystem THEN "system"
    ELSE "none"

\* The if chain of lines 239-244 on the lower-cased type.
TypeAlias(low) ==
    IF low \in {sUser, sHumanMessage, sHuman} THEN "user"
    ELSE IF low \in {sAssistant, sAssistantMessage} THEN "assistant"
    ELSE IF low \in {sSystem, sSystemMessage} THEN "system"
    ELSE "none"

\* msg = obj.get("message"); the role the nested block returns, or "none"
NestedRole(obj) ==
    LET msg == Get(obj, kMessage)
    IN  IF IsDict(msg) /\ IsStr(Get(msg, kRole))
        THEN RoleAlias(Lower(Get(msg, kRole).v))
        ELSE "none"

\* The role the loop body returns for obj.get(key), or "none"
FieldRole(obj, key) ==
    IF IsStr(Get(obj, key)) THEN RoleAlias(Lower(Get(obj, key).v)) ELSE "none"

\* for key in ("role", "sender", "author"), from the key at position k on
TopLevelRole(obj, keys) ==
    LET hits == {k \in 1..Len(keys) : FieldRole(obj, keys[k]) # "none"}
    IN  IF hits = {} THEN "none"
        ELSE FieldRole(obj, keys[CHOOSE k \in hits : \A m \in hits : k <= m])

TypeRole(obj) ==
    IF IsStr(Get(obj, kType)) THEN TypeAlias(Lower(Get(obj, kType).v)) ELSE "none"

\* (a mutant: the top-level fields are consulted before the nested message)
guess_role_top_first(obj) ==
    IF ~IsDict(obj) THEN "system"
    ELSE IF TopLevelRole(obj, <<kRole, kSender, kAuthor>>) # "none"
    THEN TopLevelRole(obj, <<kRole, kSender, kAuthor>>)
    ELSE IF NestedRole(obj) # "none" THEN NestedRole(obj)
    ELSE IF TypeRole(obj) # "none" THEN TypeRole(obj)
    ELSE "system"

guess_role(obj) ==
    IF ~IsDict(obj) THEN "system"
    ELSE IF NestedRole(obj) # "none" THEN NestedRole(obj)
    ELSE IF TopLevelRole(obj, <<kRole, kSender, kAuthor>>) # "none"
    THEN TopLevelRole(obj, <<kRole, kSender, kAuthor>>)
    ELSE IF TypeRole(obj) # "none" THEN TypeRole(obj)
    ELSE "system"

-----------------------------------------------------------------------------
(* _extract_text_recursive                                                 *)

TextKeys == << <<"t", "e", "x", "t">>,
               <<"c", "o", "n", "t", "e", "n", "t">>,
               kMessage,
               <<"p", "r", "o", "m", "p", "t">>,
               <<"o", "u", "t", "p", "u", "t">>,
               <<"i", "n", "p", "u", "t">>,
               <<"v", "a", "l", "u", "e">>,
               <<"b", "o", "d", "y">> >>

SkipKeys == { kType, <<"i", "d">>, <<"u", "u", "i", "d">>, kRole, kSender, kAuthor,
              <<"v", "e", "r", "s", "i", "o", "n">>,
              <<"u", "p", "d", "a", "t", "e", "d", "A", "t">>,
              <<"c", "r", "e", "a", "t", "e", "d", "A", "t">>,
              <<"t", "i", "m", "e", "s", "t", "a", "m", "p">>,
              <<"t", "i", "m", "e">>,
              <<"t", "s">> }

IsTextKey(key) == \E k \in 1..Len(TextKeys) : TextKeys[k] = key

\* The harvest without the priority pass: every key in the dict's own order
RECURSIVE extract_text_natural_order(_)
extract_text_natural_order(obj) ==
    IF IsStr(obj)
    THEN IF Strip(obj.v) # <<>> THEN <<Strip(obj.v)>> ELSE <<>>
    ELSE IF IsList(obj)
    THEN Concat([k \in 1..Len(obj.v) |-> extract_text_natural_order(obj.v[k])])
    ELSE IF IsDict(obj)
    THEN Concat([m \in 1..Len(obj.v) |->
                    IF obj.v[m].k \in SkipKeys
                    THEN <<>>
                    ELSE extract_text_natural_order(obj.v[m].val)])
    ELSE <<>>

RECURSIVE extract_text_recursive(_)
extract_text_recursive(obj) ==
    IF IsStr(obj)
    THEN IF Strip(obj.v) # <<>> THEN <<Strip(obj.v)>> ELSE <<>>
    ELSE IF IsList(obj)
    THEN Concat([k \in 1..Len(obj.v) |-> extract_text_recursive(obj.v[k])])
    ELSE IF IsDict(obj)
    THEN Concat([k \in 1..Len(TextKeys) |->
                    IF HasKey(obj, TextKeys[k])
                    THEN extract_text_recursive(Get(obj, TextKeys[k]))
                    ELSE <<>>])
         \o
         Concat([m \in 1..Len(obj.v) |->
                    IF IsTextKey(obj.v[m].k) \/ obj.v[m].k \in SkipKeys
                    THEN <<>>
                    ELSE extract_text_recursive(obj.v[m].val)])
    ELSE <<>>

-----------------------------------------------------------------------------
(* json.loads and json.dumps(..., ensure_ascii=False)                      *)
(*                                                                         *)
(* The grammar covered: objects, arrays, strings with the escapes \" \\ \/ *)
(* \n \t, non-negative ints, null, true, false, and the JSON whitespace.   *)
(* The inputs the specifications draw hold no '-', '.', exponent, \u or    *)
(* NaN, so nothing json.loads accepts among them is refused here.          *)

JBool(b) == [t |-> "bool", v |-> b]

ParseFail == [ok |-> FALSE, val |-> JNull, next |-> 0]

ParseOk(value, next) == [ok |-> TRUE, val |-> value, next |-> next]

MinOf(S) == CHOOSE x \in S : \A y \in S : x <= y

MaxOf(S) == CHOOSE x \in S : \A y \in S : y <= x

\* The first position at or after p that holds no whitespace (Len(s) + 1 at the end)
SkipWs(s, p) ==
    IF p > Len(s) \/ s[p] \notin WS THEN p
    ELSE MinOf({q \in p..(Len(s) + 1) : q = Len(s) + 1 \/ s[q] \notin WS})

\* The number of consecutive backslashes that end just before position k, counted
\* from position lo on
BackslashRun(s, lo, k) ==
    (k - 1) - MaxOf({lo - 1} \cup {m \in lo..(k - 1) : s[m] # "\\"})

\* The characters a string literal may not hold unescaped (code points below 0x20)
ControlChars == {"NUL", "\n", "\t", "\r"}

Unescape(c) ==
    IF c = "n" THEN "\n" ELSE IF c = "t" THEN "\t" ELSE c

\* The string literal opening at s[p] = '"'
ParseString(s, p) ==
    LET closers == {q \in (p + 1)..Len(s) :
                      s[q] = "\"" /\ BackslashRun(s, p + 1, q) % 2 = 0}
    IN  IF closers = {} THEN ParseFail
        ELSE LET q == MinOf(closers)
                 IsIntro(k) == s[k] = "\\" /\ BackslashRun(s, p + 1, k) % 2 = 0
                 bad == \E k \in (p + 1)..(q - 1) :
                           \/ s[k] \in ControlChars
                           \/ /\ IsIntro(k)
                              /\ s[k + 1] \notin {"\"", "\\", "/", "n", "t"}
             IN  IF bad THEN ParseFail
                 ELSE ParseOk(
                        JStr(Concat([k \in 1..(q - p - 1) |->
                               IF IsIntro(p + k) THEN <<>>
                               ELSE IF k > 1 /\ IsIntro(p + k - 1)
                               THEN <<Unescape(s[p + k])>>
                               ELSE <<s[p + k]>>])),
                        q + 1)

\* An int: "0", or a non-zero digit and the digits after it
ParseNumber(s, p) ==
    IF s[p] = "0" THEN ParseOk(JNum(<<"0">>), p + 1)
    ELSE LET q == MinOf({r \in p..(Len(s) + 1) : r = Len(s) + 1 \/ ~IsDigit(s[r])})
         IN  ParseOk(JNum(SubSeq(s, p, q - 1)), q)

StartsWith(s, p, word) ==
    /\ p + Len(word) - 1 <= Len(s)
    /\ \A k \in 1..Len(word) : s[p + k - 1] = word[k]

\* d[key] = value: a new key goes last, a repeated key keeps its place
DictSet(members, key, value) ==
    IF \E m \in 1..Len(members) : members[m].k = key
    THEN [m \in 1..Len(members) |->
            IF members[m].k = key THEN Member(key, value) ELSE members[m]]
    ELSE Append(members, Member(key, value))

RECURSIVE ParseValue(_, _)
RECURSIVE ParseMembers(_, _, _)
RECURSIVE ParseItems(_, _, _)

\* The members of an object from the key expected at p on; acc holds those read
ParseMembers(s, p, acc) ==
    IF p > Len(s) \/ s[p] # "\"" THEN ParseFail
    ELSE LET key == ParseString(s, p)
         IN  IF ~key.ok THEN ParseFail
             ELSE LET q == SkipWs(s, key.next)
                  IN  IF q > Len(s) \/ s[q] # ":" THEN ParseFail
                      ELSE LET value == ParseValue(s, SkipWs(s, q + 1))
                           IN  IF ~value.ok THEN ParseFail
                               ELSE LET r == SkipWs(s, value.next)
                                        got == DictSet(acc, key.val.v, value.val)
                                    IN  IF r > Len(s) THEN ParseFail
                                        ELSE IF s[r] = "}" THEN ParseOk(JDict(got), r + 1)
                                        ELSE IF s[r] = ","
                                        THEN ParseMembers(s, SkipWs(s, r + 1), got)
                                        ELSE ParseFail

\* The items of an array from the value expected at p on
ParseItems(s, p, acc) ==
    LET value == ParseValue(s, p)
    IN  IF ~value.ok THEN ParseFail
        ELSE LET r == SkipWs(s, value.next)
             IN  IF r > Len(s) THEN ParseFail
                 ELSE IF s[r] = "]" THEN ParseOk(JList(Append(acc, value.val)), r + 1)
                 ELSE IF s[r] = ","
                 THEN ParseItems(s, SkipWs(s, r + 1), Append(acc, value.val))
                 ELSE ParseFail

ParseValue(s, p) ==
    IF p > Len(s) THEN ParseFail
    ELSE IF s[p] = "{"
    THEN LET q == SkipWs(s, p + 1)
         IN  IF q <= Len(s) /\ s[q] = "}" THEN ParseOk(JDict(<<>>), q + 1)
             ELSE ParseMembers(s, q, <<>>)
    ELSE IF s[p] = "["
    THEN LET q == SkipWs(s, p + 1)
         IN  IF q <= Len(s) /\ s[q] = "]" THEN ParseOk(JList(<<>>), q + 1)
             ELSE ParseItems(s, q, <<>>)
    ELSE IF s[p] = "\"" THEN ParseString(s, p)
    ELSE IF IsDigit(s[p]) THEN ParseNumber(s, p)
    ELSE IF StartsWith(s, p, <<"n", "u", "l", "l">>) THEN ParseOk(JNull, p + 4)
    ELSE IF StartsWith(s, p, <<"t", "r", "u", "e">>)
    THEN ParseOk(JBool(<<"t", "r", "u", "e">>), p + 4)
    ELSE IF StartsWith(s, p, <<"f", "a", "l", "s", "e">>)
    THEN ParseOk(JBool(<<"f", "a", "l", "s", "e">>), p + 5)
    ELSE ParseFail

\* json.loads(s): ok = FALSE stands for the exception it raises
json_loads(s) ==
    LET r == ParseValue(s, SkipWs(s, 1))
    IN  IF r.ok /\ SkipWs(s, r.next) = Len(s) + 1 THEN r ELSE ParseFail

EscapeChar(c) ==
    IF c = "\"" THEN <<"\\", "\"">>
    ELSE IF c = "\\" THEN <<"\\", "\\">>
    ELSE IF c = "\n" THEN <<"\\", "n">>
    ELSE IF c = "\t" THEN <<"\\", "t">>
    ELSE IF c = "\r" THEN <<"\\", "r">>
    ELSE IF c = "NUL" THEN <<"\\", "u", "0", "0", "0", "0">>
    ELSE <<c>>

DumpStr(s) == <<"\"">> \o Concat([k \in 1..Len(s) |-> EscapeChar(s[k])]) \o <<"\"">>

RECURSIVE json_dumps(_)
json_dumps(x) ==
    IF IsStr(x) THEN DumpStr(x.v)
    ELSE IF IsNum(x) THEN x.v
    ELSE IF x.t = "bool" THEN x.v
    ELSE IF IsList(x)
    THEN <<"[">> \o Join(<<",", " ">>, [k \in 1..Len(x.v) |-> json_dumps(x.v[k])])
         \o <<"]">>
    ELSE IF IsDict(x)
    THEN <<"{">>
         \o Join(<<",", " ">>,
                 [m \in 1..Len(x.v) |->
                    DumpStr(x.v[m].k) \o <<":", " ">> \o json_dumps(x.v[m].val)])
         \o <<"}">>
    ELSE <<"n", "u", "l", "l">>

-----------------------------------------------------------------------------
(* str(x), repr(x) and truth of a JSON value, as the f-strings and the     *)
(* "x or ''" of the text builders use them                                 *)

\* obj.get(key, default)
GetOr(obj, key, default) == IF HasKey(obj, key) THEN Get(obj, key) ELSE default

\* not x
Falsy(x) ==
    \/ x.t = "null"
    \/ x.t \in {"str", "list", "dict"} /\ x.v = <<>>
    \/ x.t = "num" /\ x.v = <<"0">>
    \/ x.t = "bool" /\ x.v = <<"f", "a", "l", "s", "e">>

ReprChar(c, quote) ==
    IF c = "\\" THEN <<"\\", "\\">>
    ELSE IF c = quote THEN <<"\\", c>>
    ELSE IF c = "\n" THEN <<"\\", "n">>
    ELSE IF c = "\t" THEN <<"\\", "t">>
    ELSE IF c = "\r" THEN <<"\\", "r">>
    ELSE IF c = "NUL" THEN <<"\\", "x", "0", "0">>
    ELSE <<c>>

\* repr of a str: double quotes only when it holds ' and no "
ReprStr(s) ==
    LET hasSingle == \E k \in 1..Len(s) : s[k] = "'"
        hasDouble == \E k \in 1..Len(s) : s[k] = "\""
        quote == IF hasSingle /\ ~hasDouble THEN "\"" ELSE "'"
    IN  <<quote>> \o Concat([k \in 1..Len(s) |-> ReprChar(s[k], quote)]) \o <<quote>>

RECURSIVE PyRepr(_)
PyRepr(x) ==
    IF IsStr(x) THEN ReprStr(x.v)
    ELSE IF IsNum(x) THEN x.v
    ELSE IF x.t = "bool" THEN (IF x.v = <<"t", "r", "u", "e">> THEN <<"T", "r", "u", "e">> ELSE <<"F", "a", "l", "s", "e">>)
    ELSE IF IsList(x)
    THEN <<"[">> \o Join(<<",", " ">>, [k \in 1..Len(x.v) |-> PyRepr(x.v[k])]) \o <<"]">>
    ELSE IF IsDict(x)
    THEN <<"{">>
         \o Join(<<",", " ">>,
                 [m \in 1..Len(x.v) |->
                    ReprStr(x.v[m].k) \o <<":", " ">> \o PyRepr(x.v[m].val)])
         \o <<"}">>
    ELSE <<"N", "o", "n", "e">>

\* str(x), the text an f-string puts for {x}
PyStr(x) == IF IsStr(x) THEN x.v ELSE PyRepr(x)

-----------------------------------------------------------------------------
(* _extract_claude_message_text and _extract_claude_progress_text          *)

JoinedText(x) == Join(<<"\n">>, extract_text_recursive(x))

\* The chunks (none or one) a block of the content list appends
BlockChunks(item) ==
    IF ~IsDict(item)
    THEN IF IsStr(item) /\ Strip(item.v) # <<>> THEN <<Strip(item.v)>> ELSE <<>>
    ELSE LET typ == Get(item, kType)
         IN  IF typ = JStr(<<"t", "e", "x", "t">>)
             THEN LET t == Get(item, <<"t", "e", "x", "t">>)
                  IN  IF IsStr(t) /\ Strip(t.v) # <<>> THEN <<Strip(t.v)>> ELSE <<>>
             ELSE IF typ = JStr(<<"t", "h", "i", "n", "k", "i", "n", "g">>)
             THEN LET t == Get(item, <<"t", "h", "i", "n", "k", "i", "n", "g">>)
                  IN  IF IsStr(t) /\ Strip(t.v) # <<>> THEN <<Strip(t.v)>> ELSE <<>>
             ELSE IF typ = JStr(<<"t", "o", "o", "l", "_", "u", "s", "e">>)
             THEN LET name == GetOr(item, <<"n", "a", "m", "e">>, JStr(<<>>))
                      tool_input == Get(item, <<"i", "n", "p", "u", "t">>)
                      arg == IF IsDict(tool_input) THEN json_dumps(tool_input)
                             ELSE IF Falsy(tool_input) THEN <<>>
                             ELSE PyStr(tool_input)
                  IN  <<Strip(<<"[", "t", "o", "o", "l", "_", "u", "s", "e", "]", " ">> \o PyStr(name) \o <<" ">> \o arg)>>
             ELSE IF typ = JStr(<<"t", "o", "o", "l", "_", "r", "e", "s", "u", "l", "t">>)
             THEN LET t == JoinedText(Get(item, <<"c", "o", "n", "t", "e", "n", "t">>))
                  IN  IF Strip(t) # <<>> THEN <<<<"[", "t", "o", "o", "l", "_", "r", "e", "s", "u", "l", "t", "]", " ">> \o Strip(t)>> ELSE <<>>
             ELSE LET t == JoinedText(item)
                  IN  IF Strip(t) # <<>> THEN <<Strip(t)>> ELSE <<>>

extract_claude_message_text(message_obj) ==
    IF IsStr(message_obj) THEN Strip(message_obj.v)
    ELSE IF ~IsDict(message_obj) THEN <<>>
    ELSE LET content == Get(message_obj, <<"c", "o", "n", "t", "e", "n", "t">>)
         IN  IF IsStr(content) THEN Strip(content.v)
             ELSE LET chunks == IF IsList(content)
                                THEN Concat([k \in 1..Len(content.v) |->
                                                BlockChunks(content.v[k])])
                                ELSE <<>>
                  IN  IF chunks # <<>> THEN Strip(Join(<<"\n">>, chunks))
                      ELSE Strip(JoinedText(message_obj))

extract_claude_progress_text(obj) ==
    LET data == Get(obj, <<"d", "a", "t", "a">>)
        F(key) == PyStr(GetOr(data, key, JStr(<<>>)))
    IN  IF ~IsDict(data) THEN <<>>
        ELSE IF Get(data, kType) = JStr(<<"m", "c", "p", "_", "p", "r", "o", "g", "r", "e", "s", "s">>)
        THEN Strip(<<"m", "c", "p", "_", "p", "r", "o", "g", "r", "e", "s", "s", " ", "s", "t", "a", "t", "u", "s", "=">> \o F(<<"s", "t", "a", "t", "u", "s">>)
                   \o <<" ", "s", "e", "r", "v", "e", "r", "=">> \o F(<<"s", "e", "r", "v", "e", "r", "N", "a", "m", "e">>)
                   \o <<" ", "t", "o", "o", "l", "=">> \o F(<<"t", "o", "o", "l", "N", "a", "m", "e">>)
                   \o <<" ", "e", "l", "a", "p", "s", "e", "d", "=">> \o F(<<"e", "l", "a", "p", "s", "e", "d", "T", "i", "m", "e", "M", "s">>))
        ELSE IF Get(data, kType) = JStr(<<"h", "o", "o", "k", "_", "p", "r", "o", "g", "r", "e", "s", "s">>)
        THEN Strip(<<"h", "o", "o", "k", "_", "p", "r", "o", "g", "r", "e", "s", "s", " ", "e", "v", "e", "n", "t", "=">> \o F(<<"h", "o", "o", "k", "E", "v", "e", "n", "t">>)
                   \o <<" ", "n", "a", "m", "e", "=">> \o F(<<"h", "o", "o", "k", "N", "a", "m", "e">>)
                   \o <<" ", "c", "o", "m", "m", "a", "n", "d", "=">> \o F(<<"c", "o", "m", "m", "a", "n", "d">>))
        ELSE json_dumps(data)

-----------------------------------------------------------------------------
(* load_session_events: load_cli_events and load_desktop_events            *)
(*                                                                         *)
(* A line-delimited artifact is head, then reps copies of the line body,   *)
(* then tail: the short files have reps = 0, the long ones reach the event *)
(* cap.  An opaque-binary artifact is given by what the two extractors     *)
(* return for its bytes: objs is _extract_json_objects_from_bytes(raw,     *)
(* limit=MAX_EVENTS), snippets is _extract_readable_snippets(raw, 800).    *)

VARIABLES source_type, artifact, pc, line_no, raw_count, events, result

loadVars == <<source_type, artifact, pc, line_no, raw_count, events, result>>

MAX_EVENTS == 4000

\* The longest head of a line-delimited artifact
MaxLines == 2

\* The most objects, and the most snippets, of a short opaque-binary artifact
MaxObjs == 2

MaxSnips == 2

\* The lines the line-delimited artifacts are made of
LineBlank == <<>>

LineSpaces == <<" ", " ">>

LineGarbage == <<"{", "\"", "t", "y", "p", "e", "\"", ":">>

LineNumber == <<"5">>

LineString == <<"\"", "a", "\"">>

LineList == <<"[", "1", "]">>

LineNull == <<"n", "u", "l", "l">>

LineUser == <<"{", "\"", "t", "y", "p", "e", "\"", ":", "\"", "u", "s", "e", "r", "\"", ",", "\"", "m", "e", "s", "s", "a", "g", "e", "\"", ":", "{", "\"", "r", "o", "l", "e", "\"", ":", "\"", "u", "s", "e", "r", "\"", ",", "\"", "c", "o", "n", "t", "e", "n", "t", "\"", ":", "\"", "h", "i", "\"", "}", ",", "\"", "t", "i", "m", "e", "s", "t", "a", "m", "p", "\"", ":", "1", "7", "0", "0", "0", "0", "0", "0", "0", "0", "}">>

LineAssistant == <<" ", "{", "\"", "t", "y", "p", "e", "\"", ":", "\"", "a", "s", "s", "i", "s", "t", "a", "n", "t", "\"", ",", "\"", "m", "e", "s", "s", "a", "g", "e", "\"", ":", "{", "\"", "c", "o", "n", "t", "e", "n", "t", "\"", ":", "[", "{", "\"", "t", "y", "p", "e", "\"", ":", "\"", "t", "e", "x", "t", "\"", ",", "\"", "t", "e", "x", "t", "\"", ":", "\"", "o", "k", "\"", "}", "]", "}", "}">>

LineUserNestedAssistant == <<"{", "\"", "t", "y", "p", "e", "\"", ":", "\"", "u", "s", "e", "r", "\"", ",", "\"", "m", "e", "s", "s", "a", "g", "e", "\"", ":", "{", "\"", "r", "o", "l", "e", "\"", ":", "\"", "a", "s", "s", "i", "s", "t", "a", "n", "t", "\"", ",", "\"", "c", "o", "n", "t", "e", "n", "t", "\"", ":", "\"", "x", "\"", "}", "}">>

LineQueue == <<"{", "\"", "t", "y", "p", "e", "\"", ":", "\"", "q", "u", "e", "u", "e", "-", "o", "p", "e", "r", "a", "t", "i", "o", "n", "\"", ",", "\"", "o", "p", "e", "r", "a", "t", "i", "o", "n", "\"", ":", "\"", "e", "n", "q", "u", "e", "u", "e", "\"", ",", "\"", "c", "o", "n", "t", "e", "n", "t", "\"", ":", "\"", "c", "\"", "}">>

LineProgress == <<"{", "\"", "t", "y", "p", "e", "\"", ":", "\"", "p", "r", "o", "g", "r", "e", "s", "s", "\"", ",", "\"", "d", "a", "t", "a", "\"", ":", "{", "\"", "t", "y", "p", "e", "\"", ":", "\"", "h", "o", "o", "k", "_", "p", "r", "o", "g", "r", "e", "s", "s", "\"", ",", "\"", "h", "o", "o", "k", "E", "v", "e", "n", "t", "\"", ":", "\"", "e", "\"", "}", "}">>

LineSystem == <<"{", "\"", "t", "y", "p", "e", "\"", ":", "\"", "s", "y", "s", "t", "e", "m", "\"", ",", "\"", "s", "u", "b", "t", "y", "p", "e", "\"", ":", "\"", "s", "\"", "}">>

LineSummary == <<"{", "\"", "t", "y", "p", "e", "\"", ":", "\"", "s", "u", "m", "m", "a", "r", "y", "\"", ",", "\"", "s", "u", "m", "m", "a", "r", "y", "\"", ":", "\"", "t", "\"", ",", "\"", "s", "e", "n", "d", "e", "r", "\"", ":", "\"", "h", "u", "m", "a", "n", "\"", "}">>

LineShort == <<"{", "\"", "k", "\"", ":", "1", "}">>

LineEmptyObject == <<"{", "}">>

Lines == {LineBlank, LineSpaces, LineGarbage, LineNumber, LineString, LineList,
          LineNull, LineUser, LineAssistant, LineUserNestedAssistant, LineQueue,
          LineProgress, LineSystem, LineSummary, LineEmptyObject}

SeqsUpTo(S, n) == UNION {[1..k -> S] : k \in 0..n}

CliFile(head, body, reps, tail) ==
    [head |-> head, body |-> body, reps |-> reps, tail |-> tail]

ShortCliFiles == {CliFile(h, LineBlank, 0, <<>>) : h \in SeqsUpTo(Lines, MaxLines)}

\* Files of MAX_EVENTS - 1 and of MAX_EVENTS records, and what may follow them
LongCliFiles ==
    {CliFile(<<>>, LineShort, MAX_EVENTS - 1, t) :
        t \in {<<>>, <<LineGarbage, LineQueue>>, <<LineAssistant, LineBlank, LineSummary>>}}

\* A file of one record whose message is longer than any cut of the code
LineBigMessage ==
    <<"{", "\"", "t", "y", "p", "e", "\"", ":", "\"", "u", "s", "e", "r", "\"", ",", "\"", "m", "e", "s", "s", "a", "g", "e", "\"", ":", "{", "\"", "c", "o", "n", "t", "e", "n", "t", "\"", ":", "\"">>
    \o [k \in 1..4001 |-> "m"] \o <<"\"", "}", "}">>

BigCliFiles == {CliFile(<<LineBigMessage>>, LineBlank, 0, <<>>)}

NumLines(f) == Len(f.head) + f.reps + Len(f.tail)

LineAt(f, k) ==
    IF k <= Len(f.head) THEN f.head[k]
    ELSE IF k <= Len(f.head) + f.reps THEN f.body
    ELSE f.tail[k - Len(f.head) - f.reps]

\* The decimal digits of a natural number
RECURSIVE DigitsOf(_)
DigitsOf(n) ==
    IF n < 10 THEN <<Digits[n + 1]>>
    ELSE Append(DigitsOf(n \div 10), Digits[(n % 10) + 1])

\* Recovered objects: with text, with a user role, and with metadata only
ObjText == JDict(<<Member(<<"t", "e", "x", "t">>, JStr(<<" ", "r", "e", "c", "o", "v", "e", "r", "e", "d", " ">>))>>)

ObjUser == JDict(<<Member(kRole, JStr(<<"H", "u", "m", "a", "n">>)),
                   Member(<<"c", "o", "n", "t", "e", "n", "t">>, JStr(<<"q">>)),
                   Member(<<"t", "s">>, JStr(<<"1", "7", "0", "0", "0", "0", "0", "0", "0", "0", "0", "0", "0">>))>>)

ObjNoText == JDict(<<Member(kMessage, JDict(<<Member(kRole, JStr(sAssistant))>>))>>)

DesktopObjs == {ObjText, ObjUser, ObjNoText}

\* The k-th object of a long recovery: distinct objects, each with text
NumberedObj(k) == JDict(<<Member(<<"t", "e", "x", "t">>, JStr(<<"t">>)), Member(<<"n">>, JNum(DigitsOf(k)))>>)

\* The k-th readable run: 24 characters and its number
NumberedSnippet(k) == <<"a", "a", "a", "a", "a", "a", "a", "a", "a", "a", "a", "a", "a", "a", "a", "a", "a", "a", "a", "a", "a", "a", "a", "a">> \o DigitsOf(k)

NoRepeat(s) == \A a, b \in 1..Len(s) : a # b => s[a] # s[b]

DesktopBlob(objs, snippets) == [objs |-> objs, snippets |-> snippets]

ShortDesktopBlobs ==
    {DesktopBlob(o, [k \in 1..n |-> NumberedSnippet(k)]) :
        o \in {s \in SeqsUpTo(DesktopObjs, MaxObjs) : NoRepeat(s)},
        n \in 0..MaxSnips}

LongDesktopBlobs ==
    {DesktopBlob([k \in 1..n |-> NumberedObj(k)], <<>>) : n \in {MAX_EVENTS - 1, MAX_EVENTS}}
    \cup {DesktopBlob(<<>>, [k \in 1..800 |-> NumberedSnippet(k)])}

Event(ts, kind, role, text) ==
    [timestamp |-> ts, kind |-> kind, role |-> role, text |-> text]

\* The text of the notice (the source's is a sentence in Japanese)
NoticeText == <<"n", "o", "t", "i", "c", "e", ":", " ", "e", "x", "t", "r", "a", "c", "t", "e", "d", " ", "s", "n", "i", "p", "p", "e", "t", "s", ",", " ", "n", "o", "t", " ", "a", " ", "f", "u", "l", "l", " ", "h", "i", "s", "t", "o", "r", "y">>

\* Lines 627-662: the event of one parsed record
CliEvent(obj) ==
    LET ts == extract_ts_from_obj(obj)
        typ == GetOr(obj, kType, JStr(<<>>))
        kind == IF typ \in {JStr(sUser), JStr(sAssistant)} THEN "message"
                ELSE IF typ = JStr(<<"q", "u", "e", "u", "e", "-", "o", "p", "e", "r", "a", "t", "i", "o", "n">>) THEN "queue"
                ELSE IF typ = JStr(<<"p", "r", "o", "g", "r", "e", "s", "s">>) THEN "progress"
                ELSE IF typ = JStr(sSystem) THEN "system"
                ELSE "event"
        role == IF typ = JStr(sUser) THEN "user"
                ELSE IF typ = JStr(sAssistant) THEN "assistant"
                ELSE IF kind \in {"queue", "progress", "system"} THEN "system"
                ELSE guess_role(obj)
        text == IF kind = "message" THEN extract_claude_message_text(Get(obj, kMessage))
                ELSE IF kind = "queue"
                THEN Strip(PyStr(GetOr(obj, <<"o", "p", "e", "r", "a", "t", "i", "o", "n">>, JStr(<<>>))) \o <<"\n">>
                           \o PyStr(GetOr(obj, <<"c", "o", "n", "t", "e", "n", "t">>, JStr(<<>>))))
                ELSE IF kind = "progress" THEN extract_claude_progress_text(obj)
                ELSE IF kind = "system" THEN json_dumps(obj)
                ELSE IF extract_claude_message_text(Get(obj, kMessage)) # <<>>
                THEN extract_claude_message_text(Get(obj, kMessage))
                ELSE Strip(JoinedText(obj))
    IN  Event(ts, kind, role, IF text # <<>> THEN text ELSE Prefix(json_dumps(obj), 1000))

LoadInit ==
    /\ \/ source_type = "claude_cli"
          /\ artifact \in ShortCliFiles \cup LongCliFiles \cup BigCliFiles
       \/ source_type = "claude_desktop" /\ artifact \in ShortDesktopBlobs \cup LongDesktopBlobs
    /\ pc = "start"
    /\ line_no = 0
    /\ raw_count = 0
    /\ events = <<>>
    /\ result = [events |-> <<>>, raw_line_count |-> 0]

\* load_session_events dispatches on the source type; load_cli_events opens the file
load_session_events ==
    /\ pc = "start"
    /\ source_type = "claude_cli"
    /\ pc' = "cli_loop"
    /\ UNCHANGED <<source_type, artifact, line_no, raw_count, events, result>>

CanReadLine ==
    /\ pc = "cli_loop"
    /\ line_no < NumLines(artifact)
    /\ Len(events) < MAX_EVENTS

\* line = line.strip(), and what json.loads makes of it (a blank line is not parsed)
NextLine == Strip(LineAt(artifact, line_no + 1))

ParseLine(line) == IF line = <<>> THEN ParseFail ELSE json_loads(line)

\* Lines 619-626: a blank line, or one json.loads refuses, is counted and skipped
CliSkipLine ==
    /\ CanReadLine
    /\ LET line == NextLine
           parsed == ParseLine(line)
       IN  line = <<>> \/ ~parsed.ok
    /\ line_no' = line_no + 1
    /\ raw_count' = raw_count + 1
    /\ UNCHANGED <<source_type, artifact, pc, events, result>>

\* Line 628: obj.get on a value that is no dict raises AttributeError, which
\* nothing in load_cli_events or its callers catches
CliRaise ==
    /\ CanReadLine
    /\ LET line == NextLine
           parsed == ParseLine(line)
       IN  line # <<>> /\ parsed.ok /\ ~IsDict(parsed.val)
    /\ line_no' = line_no + 1
    /\ raw_count' = raw_count + 1
    /\ pc' = "raised"
    /\ UNCHANGED <<source_type, artifact, events, result>>

\* (a mutant: the event is put before the earlier ones)
CliAppendFirst ==
    /\ CanReadLine
    /\ LET line == NextLine
           parsed == ParseLine(line)
       IN  /\ line # <<>>
           /\ parsed.ok
           /\ IsDict(parsed.val)
           /\ events' = <<CliEvent(parsed.val)>> \o events
    /\ line_no' = line_no + 1
    /\ raw_count' = raw_count + 1
    /\ UNCHANGED <<source_type, artifact, pc, result>>

\* Lines 627-664: a record becomes an event; the loop breaks at MAX_EVENTS
\* (CanReadLine is then false, and only the return is left)
CliAppend ==
    /\ CanReadLine
    /\ LET line == NextLine
           parsed == ParseLine(line)
       IN  /\ line # <<>>
           /\ parsed.ok
           /\ IsDict(parsed.val)
           /\ events' = Append(events, CliEvent(parsed.val))
    /\ line_no' = line_no + 1
    /\ raw_count' = raw_count + 1
    /\ UNCHANGED <<source_type, artifact, pc, result>>

\* Line 665, at the end of the file or after the break
CliReturn ==
    /\ pc = "cli_loop"
    /\ line_no = NumLines(artifact) \/ Len(events) >= MAX_EVENTS
    /\ result' = [events |-> events, raw_line_count |-> raw_count]
    /\ pc' = "returned"
    /\ UNCHANGED <<source_type, artifact, line_no, raw_count, events>>

\* Lines 674-686: the events of the recovered objects, those without text left out
ObjectEvents(objs) ==
    LET text(o) == Strip(JoinedText(o))
    IN  Concat([k \in 1..Len(objs) |->
                  IF text(objs[k]) = <<>> THEN <<>>
                  ELSE <<Event(extract_ts_from_obj(objs[k]), "snippet",
                               guess_role(objs[k]), Prefix(text(objs[k]), 4000))>>])

\* Lines 688-689
SnippetEvents(snippets) ==
    [k \in 1..Len(snippets) |-> Event(TsEmpty, "snippet", "system", snippets[k])]

\* (a mutant: the list is returned without the cut to MAX_EVENTS)
DesktopResultUncut(evs) == [events |-> evs, raw_line_count |-> Len(evs)]

\* Line 696
DesktopResult(evs) == [events |-> Prefix(evs, MAX_EVENTS), raw_line_count |-> Len(evs)]

\* (a mutant: the notice is appended after the events)
WithNoticeLast(evs) == Append(evs, Event(TsEmpty, "notice", "system", NoticeText))

\* Line 695: events.insert(0, notice)
WithNotice(evs) == <<Event(TsEmpty, "notice", "system", NoticeText)>> \o evs

load_desktop_events ==
    /\ pc = "start"
    /\ source_type = "claude_desktop"
    /\ events' = WithNotice(IF artifact.objs # <<>>
                            THEN ObjectEvents(artifact.objs)
                            ELSE SnippetEvents(artifact.snippets))
    /\ result' = DesktopResult(events')
    /\ pc' = "returned"
    /\ UNCHANGED <<source_type, artifact, line_no, raw_count>>

-----------------------------------------------------------------------------
(* Calls of _iso_from_ts: one value, or a second count and then the same   *)
(* count times 1000                                                        *)

VARIABLES ts_in, ts_out

tsVars == <<ts_in, ts_out>>

\* The most digits of a drawn number
MaxDigits == 17

\* The number of len digits that starts with lead, ends with last, fill between
NumShape(len, lead, fill, last) ==
    [k \in 1..len |-> IF k = 1 THEN lead ELSE IF k = len THEN last ELSE fill]

TsNumbers ==
    {NumShape(len, lead, fill, last) :
        len \in 1..MaxDigits, lead \in {"1", "2", "9"}, fill \in {"0", "9"},
        last \in {"0", "1", "9"}}
    \cup {<<"0">>, <<"1", "7", "0", "0", "0", "0", "0", "0", "0", "0">>, <<"1", "7", "0", "0", "0", "0", "0", "0", "0", "0", "0", "0", "0">>, MaxEpochSec, <<"2", "5", "3", "4", "0", "2", "3", "0", "0", "8", "0", "0">>}

\* n * 1000
Times1000(n) == IF n = <<"0">> THEN n ELSE n \o <<"0", "0", "0">>

TsStrings ==
    {JStr(n) : n \in TsNumbers}
    \cup {JStr(<<"0", "0">> \o n) : n \in TsNumbers}
    \cup {JStr(<<" ">> \o n \o <<"\n">>) : n \in TsNumbers}
    \cup {JStr(<<>>), JStr(<<" ", " ">>), JStr(<<"2", "0", "2", "4", "-", "0", "1", "-", "0", "2", "T", "0", "3", ":", "0", "4", ":", "0", "5", "Z">>), JStr(<<" ", "1", "2", "3", "4", "5", "6", "7", "8", "9", "0", "1", "x", " ">>)}

TsCalls ==
    {<<JNum(n)>> : n \in TsNumbers}
    \cup {<<v>> : v \in TsStrings}
    \cup {<<JNull>>, <<JList(<<>>)>>, <<JBool(<<"t", "r", "u", "e">>)>>}
    \cup {<<JNum(n), JNum(Times1000(n))>> : n \in TsNumbers}

TsInit ==
    /\ ts_in \in TsCalls
    /\ ts_out = <<>>

\* The next value is normalised
Normalize ==
    /\ Len(ts_out) < Len(ts_in)
    /\ ts_out' = Append(ts_out, iso_from_ts(ts_in[Len(ts_out) + 1]))
    /\ UNCHANGED ts_in

-----------------------------------------------------------------------------
(* Calls of _guess_role                                                    *)

VARIABLES role_obj, role_ret

roleVars == <<role_obj, role_ret>>

\* What the message key may hold (no member when the key is absent)
MessageMembers ==
    {<<>>, <<Member(kMessage, JStr(<<"h", "e", "l", "l", "o">>))>>, <<Member(kMessage, JDict(<<>>))>>,
     <<Member(kMessage, JDict(<<Member(kRole, JNum(<<"7">>))>>))>>}
    \cup {<<Member(kMessage, JDict(<<Member(kRole, JStr(v))>>))>> :
            v \in {sUser, <<"U", "S", "E", "R">>, <<"c", "l", "a", "u", "d", "e">>, <<"d", "e", "v">>, sSystem, <<"t", "o", "o", "l">>}}

FieldMembers(key, strs) ==
    {<<>>, <<Member(key, JNum(<<"7">>))>>} \cup {<<Member(key, JStr(v))>> : v \in strs}

RoleObjs ==
    {JDict(t \o a \o s \o r \o m) :
        m \in MessageMembers,
        r \in FieldMembers(kRole, {sSystem, <<"H", "u", "m", "a", "n">>, <<"A", "I">>, <<"t", "o", "o", "l">>}),
        s \in FieldMembers(kSender, {sUser, <<"D", "e", "v", "e", "l", "o", "p", "e", "r">>, <<"h", "u", "m", "a", "n", "_", "m", "e", "s", "s", "a", "g", "e">>}),
        a \in FieldMembers(kAuthor, {sAssistant, <<"b", "o", "t">>}),
        t \in FieldMembers(kType, {sUser, sHumanMessage, <<"A", "s", "s", "i", "s", "t", "a", "n", "t", "_", "M", "e", "s", "s", "a", "g", "e">>,
                                   sSystemMessage, sDev, <<"s", "u", "m", "m", "a", "r", "y">>})}

RoleInit ==
    /\ role_obj \in RoleObjs \cup {JNull, JStr(sUser), JList(<<JStr(sUser)>>), JNum(<<"1">>)}
    /\ role_ret = "pending"

GuessRole ==
    /\ role_ret = "pending"
    /\ role_ret' = guess_role(role_obj)
    /\ UNCHANGED role_obj

-----------------------------------------------------------------------------
(* Recovery of JSON objects from a binary blob:                            *)
(* _extract_json_objects_from_bytes, _extract_json_objects_from_text and   *)
(* _extract_json_candidates_balanced, one step per loop iteration.         *)
(* A byte is the character it encodes in ASCII, "NUL" for 0x00 or "xFF"    *)
(* for 0xFF. Indices i, j and start count from 0 as in the source.         *)

VARIABLES raw, limit, texts, text_no, rpc,
          i, j, start, depth, in_str, esc, out,
          chunk_no, seen, objs,
          obj_no, bytes_seen, bytes_out,
          examined, revisited, emitted

recVars == <<raw, limit, texts, text_no, rpc, i, j, start, depth, in_str, esc, out,
             chunk_no, seen, objs, obj_no, bytes_seen, bytes_out,
             examined, revisited, emitted>>

\* raw.decode("utf-8", errors="ignore"): 0xFF never belongs to a UTF-8 sequence
\* and is dropped, 0x00 is the character U+0000
Utf8Decode(bytes) == SelectSeq(bytes, LAMBDA b : b # "xFF")

\* The character of one UTF-16LE code unit: the low byte itself when the high
\* byte is 0x00, a character outside ASCII otherwise (no high byte used here
\* makes a surrogate)
Utf16Unit(lo, hi) == IF hi = "NUL" /\ lo # "xFF" THEN lo ELSE "W" \o lo \o hi

\* raw.decode("utf-16le", errors="ignore"): a trailing odd byte is dropped
Utf16Decode(bytes) ==
    [k \in 1..(Len(bytes) \div 2) |-> Utf16Unit(bytes[2 * k - 1], bytes[2 * k])]

\* The text scanned by the current call of _extract_json_objects_from_text
text == texts[text_no]

\* (mutant: a backslash inside a string literal escapes nothing)
ScanCharNoEscape(ch, d, s, e) ==
    IF s
    THEN IF ch = "\"" THEN [depth |-> d, in_str |-> FALSE, esc |-> FALSE, closed |-> FALSE]
         ELSE [depth |-> d, in_str |-> TRUE, esc |-> FALSE, closed |-> FALSE]
    ELSE IF ch = "\"" THEN [depth |-> d, in_str |-> TRUE, esc |-> e, closed |-> FALSE]
         ELSE IF ch = "{" THEN [depth |-> d + 1, in_str |-> FALSE, esc |-> e, closed |-> FALSE]
         ELSE IF ch = "}" THEN [depth |-> d - 1, in_str |-> FALSE, esc |-> e, closed |-> d - 1 = 0]
         ELSE [depth |-> d, in_str |-> FALSE, esc |-> e, closed |-> FALSE]

\* One character of the inner scan: the depth and the string state after it,
\* and whether it closes the span
ScanChar(ch, d, s, e) ==
    IF s
    THEN IF e THEN [depth |-> d, in_str |-> TRUE, esc |-> FALSE, closed |-> FALSE]
         ELSE IF ch = "\\" THEN [depth |-> d, in_str |-> TRUE, esc |-> TRUE, closed |-> FALSE]
         ELSE IF ch = "\"" THEN [depth |-> d, in_str |-> FALSE, esc |-> FALSE, closed |-> FALSE]
         ELSE [depth |-> d, in_str |-> TRUE, esc |-> FALSE, closed |-> FALSE]
    ELSE IF ch = "\"" THEN [depth |-> d, in_str |-> TRUE, esc |-> e, closed |-> FALSE]
         ELSE IF ch = "{" THEN [depth |-> d + 1, in_str |-> FALSE, esc |-> e, closed |-> FALSE]
         ELSE IF ch = "}" THEN [depth |-> d - 1, in_str |-> FALSE, esc |-> e, closed |-> d - 1 = 0]
         ELSE [depth |-> d, in_str |-> FALSE, esc |-> e, closed |-> FALSE]

\* Where the outer scan resumes after a span opened at a (mutant: one
\* character after the opening brace)
ResumeInside(a, b) == a + 1

\* i = j + 1 if j > i else i + 1
Resume(a, b) == IF b > a THEN b + 1 ELSE a + 1

\* The candidates kept: those of 24 to 200000 characters
KeepsLength(chunk) == 24 <= Len(chunk) /\ Len(chunk) <= 200000

HasMarker(chunk) ==
    \/ Contains(chunk, <<"\"", "t", "e", "x", "t", "\"">>)
    \/ Contains(chunk, <<"\"", "c", "o", "n", "t", "e", "n", "t", "\"">>)
    \/ Contains(chunk, <<"\"", "p", "r", "o", "m", "p", "t", "\"">>)
    \/ Contains(chunk, <<"\"", "m", "e", "s", "s", "a", "g", "e", "\"">>)

\* What a candidate adds to objs (mutant: its text, unparsed)
RecoveredUnparsed(chunk) == <<JStr(chunk)>>

\* json.loads(chunk), kept when it succeeds and gives a dict
Recovered(chunk) ==
    LET parsed == json_loads(chunk)
    IN  IF parsed.ok /\ IsDict(parsed.val) THEN <<parsed.val>> ELSE <<>>

\* ---- the blobs ----

MaxPieces == 3

Utf16Encode(s) == Concat([k \in 1..Len(s) |-> <<s[k], "NUL">>])

PieceOpen == <<"{", "\"", "t", "e", "x", "t", "\"", ":", "\"", "a", "a", "a", "a", "a", "a", "a", "a", "a", "a", "a", "a", "a", "a">>

PieceClose == <<"\"", "}">>

Pieces == {PieceOpen, PieceClose, <<"{">>, <<"}">>, <<"\"">>, <<"\\", "\"">>, <<"\\", "\\">>}

PieceBlobs == {Concat(ps) : ps \in SeqsUpTo(Pieces, MaxPieces)}

ShortObject == PieceOpen \o PieceClose

TrickyObject == <<"{", "\"", "t", "e", "x", "t", "\"", ":", "\"", "a", "{", "\\", "\"", "}", "\\", "\\", "\"", ",", "\"", "c", "o", "n", "t", "e", "n", "t", "\"", ":", "\"", "}", "{", "\"", "}">>

NestedTwice == <<"{", "{", "\"", "t", "e", "x", "t", "\"", ":", "\"", "a", "a", "a", "a", "a", "a", "a", "a", "a", "a", "a", "a", "a", "a", "\"", "}", "}">>

NoMarkerObject == <<"{", "\"", "k", "\"", ":", "\"", "a", "a", "a", "a", "a", "a", "a", "a", "a", "a", "a", "a", "a", "a", "a", "a", "a", "a", "a", "a", "\"", "}">>

LongObject(head, last) ==
    head \o <<"\"", "t", "e", "x", "t", "\"", ":", "\"">> \o [k \in 1..400 |-> "a"] \o <<last>> \o PieceClose

\* An emitted span with an object nested in it, a span too short to keep, an
\* emitted span, and a span that never closes with a whole object after its
\* opening brace
ConsumedSpans == NestedTwice \o <<"{", "}">> \o ShortObject \o <<"{">> \o ShortObject

SpecialBlobs ==
    { TrickyObject,
      ConsumedSpans,
      NestedTwice \o <<" ">> \o TrickyObject,
      ShortObject \o <<" ">> \o Utf16Encode(ShortObject),
      Utf16Encode(TrickyObject) \o <<"}">>,
      PieceOpen \o <<"xFF">> \o PieceClose,
      <<"xFF">>,
      NoMarkerObject \o ShortObject \o ShortObject,
      Concat([k \in 1..7 |-> ShortObject]),
      LongObject(<<"{">>, "b") \o LongObject(<<"{", " ">>, "c"),
      LongObject(<<"{">>, "b") \o LongObject(<<"{">>, "c") }

Blobs == PieceBlobs \cup SpecialBlobs

\* limit: the default of the source, and 1
Limits == {1, 120}

\* ---- the steps ----

RecoverInit ==
    /\ raw \in Blobs
    /\ limit \in Limits
    /\ texts = <<>>
    /\ text_no = 0
    /\ rpc = "call"
    /\ i = 0 /\ j = 0 /\ start = 0 /\ depth = 0
    /\ in_str = FALSE /\ esc = FALSE
    /\ out = <<>>
    /\ chunk_no = 0 /\ seen = {} /\ objs = <<>>
    /\ obj_no = 0 /\ bytes_seen = {} /\ bytes_out = <<>>
    /\ examined = {} /\ revisited = {} /\ emitted = {}

\* _extract_json_objects_from_bytes(raw, limit): the two decodings
extract_json_objects_from_bytes ==
    /\ rpc = "call"
    /\ texts' = <<Utf8Decode(raw), Utf16Decode(raw)>>
    /\ text_no' = 0
    /\ bytes_seen' = {}
    /\ bytes_out' = <<>>
    /\ rpc' = "texts"
    /\ UNCHANGED <<raw, limit, i, j, start, depth, in_str, esc, out, chunk_no, seen,
                   objs, obj_no, examined, revisited, emitted>>

\* for text in texts: if not text: continue
BytesSkipText ==
    /\ rpc = "texts"
    /\ text_no < Len(texts)
    /\ texts[text_no + 1] = <<>>
    /\ text_no' = text_no + 1
    /\ UNCHANGED <<raw, limit, texts, rpc, i, j, start, depth, in_str, esc, out,
                   chunk_no, seen, objs, obj_no, bytes_seen, bytes_out,
                   examined, revisited, emitted>>

\* objs = _extract_json_objects_from_text(text, limit), which starts
\* _extract_json_candidates_balanced(text, limit * 6)
extract_json_objects_from_text ==
    /\ rpc = "texts"
    /\ text_no < Len(texts)
    /\ texts[text_no + 1] # <<>>
    /\ text_no' = text_no + 1
    /\ objs' = <<>>
    /\ seen' = {}
    /\ out' = <<>>
    /\ i' = 0
    /\ examined' = {}
    /\ revisited' = {}
    /\ rpc' = "outer"
    /\ UNCHANGED <<raw, limit, texts, j, start, depth, in_str, esc, chunk_no,
                   obj_no, bytes_seen, bytes_out, emitted>>

\* return out, after the last text
BytesReturn ==
    /\ rpc = "texts"
    /\ text_no >= Len(texts)
    /\ rpc' = "done"
    /\ UNCHANGED <<raw, limit, texts, text_no, i, j, start, depth, in_str, esc, out,
                   chunk_no, seen, objs, obj_no, bytes_seen, bytes_out,
                   examined, revisited, emitted>>

\* while i < n and len(out) < limit
ScanContinues == i < Len(text) /\ Len(out) < limit * 6

\* if text[i] != "{": i += 1; continue
ScanSkip ==
    /\ rpc = "outer"
    /\ ScanContinues
    /\ text[i + 1] # "{"
    /\ i' = i + 1
    /\ UNCHANGED <<raw, limit, texts, text_no, rpc, j, start, depth, in_str, esc, out,
                   chunk_no, seen, objs, obj_no, bytes_seen, bytes_out,
                   examined, revisited, emitted>>

\* start = i; depth = 0; in_str = False; esc = False; j = i
ScanOpen ==
    /\ rpc = "outer"
    /\ ScanContinues
    /\ text[i + 1] = "{"
    /\ start' = i
    /\ depth' = 0
    /\ in_str' = FALSE
    /\ esc' = FALSE
    /\ j' = i
    /\ rpc' = "inner"
    /\ UNCHANGED <<raw, limit, texts, text_no, i, out, chunk_no, seen, objs,
                   obj_no, bytes_seen, bytes_out, examined, revisited, emitted>>

\* One iteration of while j < n; on the closing brace the chunk is appended
\* when its length allows, the inner loop is left and i is set
ScanInner ==
    /\ rpc = "inner"
    /\ j < Len(text)
    /\ LET r == ScanChar(text[j + 1], depth, in_str, esc)
           chunk == SubSeq(text, start + 1, j + 1)
       IN  /\ depth' = r.depth
           /\ in_str' = r.in_str
           /\ esc' = r.esc
           /\ examined' = examined \cup {j}
           /\ revisited' = revisited \cup ({j} \cap examined)
           /\ IF r.closed
              THEN /\ out' = IF KeepsLength(chunk)
                             THEN Append(out, [start |-> start, chunk |-> chunk])
                             ELSE out
                   /\ emitted' = IF KeepsLength(chunk) THEN emitted \cup {chunk} ELSE emitted
                   /\ i' = Resume(i, j)
                   /\ j' = j
                   /\ rpc' = "outer"
              ELSE /\ j' = j + 1
                   /\ UNCHANGED <<out, emitted, i, rpc>>
    /\ UNCHANGED <<raw, limit, texts, text_no, start, chunk_no, seen, objs,
                   obj_no, bytes_seen, bytes_out>>

\* (mutant: a span abandoned at the end of the text is given up one character
\* after its opening brace, and the outer scan goes on from there)
ScanEofRestart ==
    /\ rpc = "inner"
    /\ j >= Len(text)
    /\ i' = i + 1
    /\ rpc' = "outer"
    /\ UNCHANGED <<raw, limit, texts, text_no, j, start, depth, in_str, esc, out,
                   chunk_no, seen, objs, obj_no, bytes_seen, bytes_out,
                   examined, revisited, emitted>>

\* The inner loop ends at the end of the text: nothing is appended
ScanEof ==
    /\ rpc = "inner"
    /\ j >= Len(text)
    /\ i' = Resume(i, j)
    /\ rpc' = "outer"
    /\ UNCHANGED <<raw, limit, texts, text_no, j, start, depth, in_str, esc, out,
                   chunk_no, seen, objs, obj_no, bytes_seen, bytes_out,
                   examined, revisited, emitted>>

\* return out
ScanReturn ==
    /\ rpc = "outer"
    /\ ~ScanContinues
    /\ chunk_no' = 0
    /\ rpc' = "chunks"
    /\ UNCHANGED <<raw, limit, texts, text_no, i, j, start, depth, in_str, esc, out,
                   seen, objs, obj_no, bytes_seen, bytes_out,
                   examined, revisited, emitted>>

\* for chunk in candidates: marker filter, key = chunk[:400], json.loads
TextChunk ==
    /\ rpc = "chunks"
    /\ chunk_no < Len(out)
    /\ LET chunk == out[chunk_no + 1].chunk
           key == Prefix(chunk, 400)
           skipped == ~HasMarker(chunk) \/ key \in seen
           grown == IF skipped THEN objs ELSE objs \o Recovered(chunk)
       IN  /\ seen' = IF HasMarker(chunk) THEN seen \cup {key} ELSE seen
           /\ objs' = grown
           /\ IF Len(grown) > Len(objs) /\ Len(grown) >= limit
              THEN /\ rpc' = "merge"
                   /\ obj_no' = 0
                   /\ UNCHANGED chunk_no
              ELSE /\ chunk_no' = chunk_no + 1
                   /\ UNCHANGED <<rpc, obj_no>>
    /\ UNCHANGED <<raw, limit, texts, text_no, i, j, start, depth, in_str, esc, out,
                   bytes_seen, bytes_out, examined, revisited, emitted>>

\* return objs, after the last candidate
TextReturn ==
    /\ rpc = "chunks"
    /\ chunk_no >= Len(out)
    /\ rpc' = "merge"
    /\ obj_no' = 0
    /\ UNCHANGED <<raw, limit, texts, text_no, i, j, start, depth, in_str, esc, out,
                   chunk_no, seen, objs, bytes_seen, bytes_out,
                   examined, revisited, emitted>>

\* for obj in objs: sig = json.dumps(obj, ensure_ascii=False)[:400]
BytesMerge ==
    /\ rpc = "merge"
    /\ obj_no < Len(objs)
    /\ LET sig == Prefix(json_dumps(objs[obj_no + 1]), 400)
           grown == IF sig \in bytes_seen THEN bytes_out
                    ELSE Append(bytes_out, objs[obj_no + 1])
       IN  /\ bytes_seen' = bytes_seen \cup {sig}
           /\ bytes_out' = grown
           /\ IF Len(grown) > Len(bytes_out) /\ Len(grown) >= limit
              THEN /\ rpc' = "done"
                   /\ UNCHANGED obj_no
              ELSE /\ obj_no' = obj_no + 1
                   /\ UNCHANGED rpc
    /\ UNCHANGED <<raw, limit, texts, text_no, i, j, start, depth, in_str, esc, out,
                   chunk_no, seen, objs, examined, revisited, emitted>>

\* The objects of this text are merged: the next text
BytesNextText ==
    /\ rpc = "merge"
    /\ obj_no >= Len(objs)
    /\ rpc' = "texts"
    /\ UNCHANGED <<raw, limit, texts, text_no, i, j, start, depth, in_str, esc, out,
                   chunk_no, seen, objs, obj_no, bytes_seen, bytes_out,
                   examined, revisited, emitted>>

-----------------------------------------------------------------------------
(* Calls of _extract_claude_message_text and of _extract_text_recursive    *)
(*                                                                         *)
(* A message record is a dict whose content is a list of at most MaxBlocks *)
(* blocks, with or without one more field; a harvested object is a dict of *)
(* at most MaxMembers members with distinct keys, in every key order.  All *)
(* the strings of the harvested objects are distinct, so that a string of  *)
(* the output names the leaf it comes from.                                *)

VARIABLES text_fn, text_arg, text_ret, text_pc

textVars == <<text_fn, text_arg, text_ret, text_pc>>

MaxBlocks == 2
MaxMembers == 3

Value(s) == json_loads(s).val

Blocks ==
    << Value(<<"{", "\"", "t", "y", "p", "e", "\"", ":", "\"", "t", "e", "x", "t", "\"", ",", "\"", "t", "e", "x", "t", "\"", ":", "\"", " ", "a", " ", "\"", "}">>),
       Value(<<"{", "\"", "t", "y", "p", "e", "\"", ":", "\"", "t", "e", "x", "t", "\"", ",", "\"", "t", "e", "x", "t", "\"", ":", "\"", " ", " ", " ", "\"", "}">>),
       Value(<<"{", "\"", "t", "y", "p", "e", "\"", ":", "\"", "t", "e", "x", "t", "\"", ",", "\"", "t", "e", "x", "t", "\"", ":", "7", "}">>),
       Value(<<"{", "\"", "t", "y", "p", "e", "\"", ":", "\"", "t", "e", "x", "t", "\"", "}">>),
       Value(<<"{", "\"", "t", "y", "p", "e", "\"", ":", "\"", "t", "h", "i", "n", "k", "i", "n", "g", "\"", ",", "\"", "t", "h", "i", "n", "k", "i", "n", "g", "\"", ":", "\"", "h", "m", "\"", "}">>),
       Value(<<"{", "\"", "t", "y", "p", "e", "\"", ":", "\"", "t", "o", "o", "l", "_", "u", "s", "e", "\"", ",", "\"", "n", "a", "m", "e", "\"", ":", "\"", "x", "\"", ",", "\"", "i", "n", "p", "u", "t", "\"", ":", "{", "\"", "k", "\"", ":", "1", "}", "}">>),
       Value(<<"{", "\"", "t", "y", "p", "e", "\"", ":", "\"", "t", "o", "o", "l", "_", "u", "s", "e", "\"", ",", "\"", "n", "a", "m", "e", "\"", ":", "\"", "x", "\"", ",", "\"", "i", "n", "p", "u", "t", "\"", ":", "\"", "l", "s", "\"", "}">>),
       Value(<<"{", "\"", "t", "y", "p", "e", "\"", ":", "\"", "t", "o", "o", "l", "_", "u", "s", "e", "\"", ",", "\"", "n", "a", "m", "e", "\"", ":", "\"", "x", "\"", "}">>),
       Value(<<"{", "\"", "t", "y", "p", "e", "\"", ":", "\"", "t", "o", "o", "l", "_", "u", "s", "e", "\"", ",", "\"", "n", "a", "m", "e", "\"", ":", "n", "u", "l", "l", ",", "\"", "i", "n", "p", "u", "t", "\"", ":", "{", "\"", "k", "\"", ":", "1", "}", "}">>),
       Value(<<"{", "\"", "t", "y", "p", "e", "\"", ":", "\"", "t", "o", "o", "l", "_", "u", "s", "e", "\"", ",", "\"", "n", "a", "m", "e", "\"", ":", "5", "}">>),
       Value(<<"{", "\"", "t", "y", "p", "e", "\"", ":", "\"", "t", "o", "o", "l", "_", "u", "s", "e", "\"", "}">>),
       Value(<<"{", "\"", "t", "y", "p", "e", "\"", ":", "\"", "t", "o", "o", "l", "_", "r", "e", "s", "u", "l", "t", "\"", ",", "\"", "c", "o", "n", "t", "e", "n", "t", "\"", ":", "[", "{", "\"", "t", "y", "p", "e", "\"", ":", "\"", "t", "e", "x", "t", "\"", ",", "\"", "t", "e", "x", "t", "\"", ":", "\"", "o", "k", "\"", "}", ",", "\"", " ", "d", "o", "n", "e", " ", "\"", "]", "}">>),
       Value(<<"{", "\"", "t", "y", "p", "e", "\"", ":", "\"", "t", "o", "o", "l", "_", "r", "e", "s", "u", "l", "t", "\"", ",", "\"", "c", "o", "n", "t", "e", "n", "t", "\"", ":", "n", "u", "l", "l", "}">>),
       Value(<<"{", "\"", "t", "y", "p", "e", "\"", ":", "\"", "i", "m", "a", "g", "e", "\"", ",", "\"", "s", "o", "u", "r", "c", "e", "\"", ":", "{", "\"", "d", "a", "t", "a", "\"", ":", "\"", "p", "x", "\"", "}", "}">>),
       Value(<<"{", "\"", "t", "y", "p", "e", "\"", ":", "\"", "i", "m", "a", "g", "e", "\"", "}">>),
       Value(<<"\"", " ", "b", "a", "r", "e", " ", "\"">>),
       Value(<<"3">>) >>

\* Of[s[1]], Of[s[2]], ...
Chosen(Of, s) == [k \in 1..Len(s) |-> Of[s[k]]]

MessageRecord(s, noted) ==
    JDict(<<Member(<<"c", "o", "n", "t", "e", "n", "t">>, JList(Chosen(Blocks, s)))>>
          \o IF noted THEN <<Member(<<"n", "o", "t", "e">>, JStr(<<" ", "f", "b", " ">>))>> ELSE <<>>)

OtherRecords ==
    << Value(<<"\"", " ", "w", "h", "o", "l", "e", " ", "\"">>),
       Value(<<"1", "7">>),
       Value(<<"{", "\"", "c", "o", "n", "t", "e", "n", "t", "\"", ":", "\"", " ", "s", "a", "i", "d", " ", "\"", "}">>),
       Value(<<"{", "\"", "c", "o", "n", "t", "e", "n", "t", "\"", ":", "5", ",", "\"", "t", "e", "x", "t", "\"", ":", "\"", "o", "t", "h", "e", "r", "\"", "}">>),
       Value(<<"{", "\"", "r", "o", "l", "e", "\"", ":", "\"", "u", "s", "e", "r", "\"", "}">>) >>

HarvestMembers ==
    << Value(<<"{", "\"", "t", "e", "x", "t", "\"", ":", "\"", " ", "T", " ", "\"", "}">>).v[1],
       Value(<<"{", "\"", "b", "o", "d", "y", "\"", ":", "\"", "B", "\"", "}">>).v[1],
       Value(<<"{", "\"", "c", "o", "n", "t", "e", "n", "t", "\"", ":", "[", "\"", "C", "1", "\"", ",", "{", "\"", "n", "o", "t", "e", "\"", ":", "\"", "C", "2", "\"", ",", "\"", "i", "d", "\"", ":", "\"", "C", "3", "\"", ",", "\"", "v", "a", "l", "u", "e", "\"", ":", "\"", "C", "4", "\"", "}", ",", "\"", " ", " ", "\"", "]", "}">>).v[1],
       Value(<<"{", "\"", "m", "e", "s", "s", "a", "g", "e", "\"", ":", "{", "\"", "r", "o", "l", "e", "\"", ":", "\"", "R", "1", "\"", ",", "\"", "z", "e", "d", "\"", ":", "\"", "M", "1", "\"", ",", "\"", "t", "e", "x", "t", "\"", ":", "\"", "M", "2", "\"", "}", "}">>).v[1],
       Value(<<"{", "\"", "n", "o", "t", "e", "\"", ":", "\"", "N", "\"", "}">>).v[1],
       Value(<<"{", "\"", "a", "l", "p", "h", "a", "\"", ":", "{", "\"", "u", "u", "i", "d", "\"", ":", "\"", "U", "1", "\"", ",", "\"", "b", "e", "t", "a", "\"", ":", "\"", "A", "1", "\"", ",", "\"", "i", "n", "p", "u", "t", "\"", ":", "\"", "A", "2", "\"", ",", "\"", "t", "i", "m", "e", "\"", ":", "{", "\"", "t", "e", "x", "t", "\"", ":", "\"", "A", "3", "\"", "}", "}", "}">>).v[1],
       Value(<<"{", "\"", "c", "o", "u", "n", "t", "\"", ":", "1", "2", "}">>).v[1],
       Value(<<"{", "\"", "t", "y", "p", "e", "\"", ":", "\"", "Y", "\"", "}">>).v[1],
       Value(<<"{", "\"", "c", "r", "e", "a", "t", "e", "d", "_", "a", "t", "\"", ":", "\"", "D", "1", "\"", "}">>).v[1],
       Value(<<"{", "\"", "c", "r", "e", "a", "t", "e", "d", "A", "t", "\"", ":", "\"", "D", "2", "\"", "}">>).v[1],
       Value(<<"{", "\"", "t", "s", "\"", ":", "[", "\"", "S", "1", "\"", "]", "}">>).v[1] >>

HarvestObject(s) == JDict(Chosen(HarvestMembers, s))

TextInit ==
    /\ text_pc = "call"
    /\ text_ret = <<>>
    /\ \/ /\ text_fn = "message"
          /\ \E s \in SeqsUpTo(1..Len(Blocks), MaxBlocks), noted \in BOOLEAN :
                text_arg = MessageRecord(s, noted)
       \/ /\ text_fn = "message"
          /\ \E k \in 1..Len(OtherRecords) : text_arg = OtherRecords[k]
       \/ /\ text_fn = "harvest"
          /\ \E s \in SeqsUpTo(1..Len(HarvestMembers), MaxMembers) :
                NoRepeat(s) /\ text_arg = HarvestObject(s)

\* text = _extract_claude_message_text(message_obj)
MessageText ==
    /\ text_pc = "call" /\ text_fn = "message"
    /\ text_ret' = extract_claude_message_text(text_arg)
    /\ text_pc' = "returned"
    /\ UNCHANGED <<text_fn, text_arg>>

\* out = _extract_text_recursive(obj)
Harvest ==
    /\ text_pc = "call" /\ text_fn = "harvest"
    /\ text_ret' = extract_text_recursive(text_arg)
    /\ text_pc' = "returned"
    /\ UNCHANGED <<text_fn, text_arg>>

-----------------------------------------------------------------------------
(* _project_display_label: _to_windows_path_display and                    *)
(* _decode_project_slug_to_windows_path                                    *)
(*                                                                         *)
(* The letters of the modelled paths are ASCII letters, for which          *)
(* str.isalpha() and the class [a-zA-Z] of the regular expressions agree.  *)

IsAlpha(c) == \E k \in 1..26 : UpperLetters[k] = c \/ LowerLetters[k] = c

UpperChar(c) ==
    IF \E k \in 1..26 : LowerLetters[k] = c
    THEN UpperLetters[CHOOSE k \in 1..26 : LowerLetters[k] = c]
    ELSE c

\* s.replace(a, b) for single characters a and b
Replace(s, a, b) == [k \in 1..Len(s) |-> IF s[k] = a THEN b ELSE s[k]]

\* s.split(c) for a single character c
RECURSIVE Split(_, _)
Split(s, c) ==
    IF \A k \in 1..Len(s) : s[k] # c THEN <<s>>
    ELSE LET first == CHOOSE k \in 1..Len(s) :
                          s[k] = c /\ \A m \in 1..(k - 1) : s[m] # c
         IN  <<SubSeq(s, 1, first - 1)>> \o Split(SubSeq(s, first + 1, Len(s)), c)

\* s.lstrip(c) for a single character c
LStrip(s, c) ==
    IF \A k \in 1..Len(s) : s[k] = c THEN <<>>
    ELSE SubSeq(s, CHOOSE k \in 1..Len(s) : s[k] # c /\ \A m \in 1..(k - 1) : s[m] = c,
                Len(s))

\* [p for p in parts if p]
NonEmpty(parts) == SelectSeq(parts, LAMBDA p : p # <<>>)

\* s[n:]
Suffix(s, n) == SubSeq(s, n + 1, Len(s))

\* re.match(r"^/mnt/([a-zA-Z])/(.*)$", s): "." matches no line break, and s,
\* being stripped, ends with none
MatchMnt(s) ==
    /\ Len(s) >= 7
    /\ SubSeq(s, 1, 5) = <<"/", "m", "n", "t", "/">>
    /\ IsAlpha(s[6])
    /\ s[7] = "/"
    /\ \A k \in 8..Len(s) : s[k] # "\n"

\* re.match(r"^([a-zA-Z]:)\\-([^\\]+)$", converted)
MatchDriveSlug(converted) ==
    /\ Len(converted) >= 5
    /\ IsAlpha(converted[1])
    /\ converted[2] = ":"
    /\ converted[3] = "\\"
    /\ converted[4] = "-"
    /\ \A k \in 5..Len(converted) : converted[k] # "\\"

to_windows_path_display(path_str) ==
    IF ~IsStr(path_str) THEN <<>>
    ELSE LET s == Strip(path_str.v)
             converted == Replace(s, "/", "\\")
         IN  IF s = <<>> THEN <<>>
             ELSE IF MatchMnt(s)
             THEN <<UpperChar(s[6]), ":", "\\">> \o Replace(Suffix(s, 7), "/", "\\")
             ELSE IF MatchDriveSlug(converted)
             THEN <<UpperChar(converted[1]), ":", "\\">>
                  \o Join(<<"\\">>, NonEmpty(Split(Suffix(converted, 4), "-")))
             ELSE converted

\* The decoding without the drive conventions: the tokens, joined
decode_project_slug_tokens_only(project_slug) ==
    IF ~IsStr(project_slug) THEN <<>>
    ELSE LET s == Strip(project_slug.v)
             parts == NonEmpty(Split(LStrip(s, "-"), "-"))
         IN  IF s = <<>> THEN <<>>
             ELSE IF Contains(s, <<"/">>) \/ Contains(s, <<"\\">>) \/ ~Contains(s, <<"-">>)
             THEN s
             ELSE IF parts = <<>> THEN s
             ELSE Join(<<"\\">>, parts)

decode_project_slug_to_windows_path(project_slug) ==
    IF ~IsStr(project_slug) THEN <<>>
    ELSE LET s == Strip(project_slug.v)
             parts == NonEmpty(Split(LStrip(s, "-"), "-"))
         IN  IF s = <<>> THEN <<>>
             ELSE IF Contains(s, <<"/">>) \/ Contains(s, <<"\\">>) \/ ~Contains(s, <<"-">>)
             THEN s
             ELSE IF parts = <<>> THEN s
             ELSE IF Len(parts) >= 3 /\ Lower(parts[1]) = <<"m", "n", "t">>
                     /\ Len(parts[2]) = 1 /\ IsAlpha(parts[2][1])
             THEN <<UpperChar(parts[2][1]), ":", "\\">> \o Join(<<"\\">>, Suffix(parts, 2))
             ELSE IF Len(parts) >= 2 /\ Len(parts[1]) = 1 /\ IsAlpha(parts[1][1])
             THEN <<UpperChar(parts[1][1]), ":", "\\">> \o Join(<<"\\">>, Suffix(parts, 1))
             ELSE Join(<<"\\">>, parts)

project_display_label(raw_project, cwd) ==
    IF IsStr(cwd) /\ Strip(cwd.v) # <<>>
    THEN to_windows_path_display(cwd)
    ELSE decode_project_slug_to_windows_path(raw_project)

(* Calls of _project_display_label: the working directory and the slug are *)
(* concatenations of at most MaxParts pieces, and the two examples.        *)

VARIABLES label_project, label_cwd, label_ret, label_pc

labelVars == <<label_project, label_cwd, label_ret, label_pc>>

MaxParts == 4

CwdPieces == { <<"/", "m", "n", "t", "/">>, <<"/">>, <<"c">>, <<"\\">>, <<"-">>, <<"C", ":">>, <<"\n">>, <<" ">> }

SlugPieces == { <<"-">>, <<"c">>, <<"m", "n", "t">>, <<"m", "e">>, <<"9">>, <<"/">>, <<" ">> }

Paths(pieces) ==
    { Concat(s) : s \in SeqsUpTo(pieces, MaxParts) }

Cwds ==
    Paths(CwdPieces) \cup { <<"/", "m", "n", "t", "/", "c", "/", "U", "s", "e", "r", "s", "/", "m", "e">>,
                             <<"/", "m", "n", "t", "/", "c", "/", "a", "\n", "b">> }

Slugs == Paths(SlugPieces) \cup { <<"-", "c", "-", "u", "s", "e", "r", "s", "-", "m", "e", "-", "p", "r", "o", "j">>, <<"-", "M", "n", "t", "-", "d", "-", "a">>, <<"c", "-", "a", "\\", "b">> }

LabelInit ==
    /\ label_pc = "call"
    /\ label_ret = <<>>
    /\ \/ /\ label_cwd \in {JStr(s) : s \in Cwds}
          /\ label_project = JStr(<<"-", "c", "-", "u", "s", "e", "r", "s", "-", "m", "e", "-", "p", "r", "o", "j">>)
       \/ /\ label_cwd = JNull \/ label_cwd = JStr(<<" ">>)
          /\ label_project \in {JStr(s) : s \in Slugs}

\* summary["project"] = _project_display_label(summary["project"], summary["cwd"])
ProjectLabel ==
    /\ label_pc = "call"
    /\ label_ret' = project_display_label(label_project, label_cwd)
    /\ label_pc' = "returned"
    /\ UNCHANGED <<label_project, label_cwd>>

-----------------------------------------------------------------------------
(* summarize_session: summarize_cli_session and summarize_desktop_blob     *)
(*                                                                         *)
(* Of the summary the fields that the records of the artifact fill are     *)
(* kept: project, started_at, cwd, model, first_user_text, search_text.    *)
(* A line-delimited artifact is a CliFile, its relative path is sum_rel;   *)
(* an opaque-binary artifact is given, as for load_desktop_events, by what *)
(* the extractors return for its bytes: objs is                            *)
(* _extract_json_objects_from_bytes(raw, limit=40), snippets is            *)
(* _extract_readable_snippets(raw, limit=10).                              *)

VARIABLES sum_source, sum_artifact, sum_rel, sum_pc, sum_line, search_chunks, summary

sumVars == <<sum_source, sum_artifact, sum_rel, sum_pc, sum_line, search_chunks, summary>>

search_limit == 2500

\* The most copies of the long line in a long line-delimited artifact
MaxLongLines == 9

NewSummary(project) ==
    [project |-> project, started_at |-> TsEmpty, cwd |-> <<>>, model |-> <<>>,
     first_user_text |-> <<>>, search_text |-> <<>>]

\* Lines 515-519: the first component of the relative path
ProjectOfPath(rel) ==
    IF Contains(rel, <<"/">>) THEN Split(rel, "/")[1]
    ELSE IF Contains(rel, <<"\\">>) THEN Split(rel, "\\")[1]
    ELSE <<>>

is_probably_textual_json_line(line) ==
    LET s == Strip(line)
    IN  s # <<>> /\ s[1] = "{" /\ s[Len(s)] = "}"

\* " ".join(texts).strip().replace("\n", " ")
FlatText(parts) == Replace(Strip(Join(<<" ">>, parts)), "\n", " ")

\* Lines 535-539: the first of model, model_name, modelName that holds a non-empty str
ModelOf(obj) ==
    LET keys == <<<<"m", "o", "d", "e", "l">>, <<"m", "o", "d", "e", "l", "_", "n", "a", "m", "e">>, <<"m", "o", "d", "e", "l", "N", "a", "m", "e">>>>
        hits == {k \in 1..3 : IsStr(Get(obj, keys[k])) /\ Get(obj, keys[k]).v # <<>>}
    IN  IF hits = {} THEN <<>> ELSE Get(obj, keys[MinOf(hits)]).v

LineBadObject == <<"{", "\"", "t", "y", "p", "e", "\"", ":", "\"", "u", "s", "e", "r", "\"", " ", "\"", "t", "e", "x", "t", "\"", ":", "\"", "q", "\"", "}">>

LineMeta == <<"{", "\"", "c", "w", "d", "\"", ":", "\"", "/", "m", "n", "t", "/", "c", "/", "p", "\"", ",", "\"", "m", "o", "d", "e", "l", "\"", ":", "\"", "m", "1", "\"", ",", "\"", "c", "r", "e", "a", "t", "e", "d", "A", "t", "\"", ":", "\"", "2", "0", "2", "4", "-", "0", "5", "-", "0", "6", "T", "0", "7", ":", "0", "8", ":", "0", "9", "Z", "\"", ",", "\"", "r", "o", "l", "e", "\"", ":", "\"", "H", "u", "m", "a", "n", "\"", ",", "\"", "t", "e", "x", "t", "\"", ":", "\"", " ", "f", "i", "r", "s", "t", "\\", "n", "s", "e", "c", "o", "n", "d", " ", "\"", "}">>

LineModelName == <<"{", "\"", "m", "o", "d", "e", "l", "\"", ":", "\"", "\"", ",", "\"", "m", "o", "d", "e", "l", "_", "n", "a", "m", "e", "\"", ":", "\"", "m", "2", "\"", ",", "\"", "c", "w", "d", "\"", ":", "\"", "\"", ",", "\"", "t", "y", "p", "e", "\"", ":", "\"", "a", "s", "s", "i", "s", "t", "a", "n", "t", "\"", ",", "\"", "m", "e", "s", "s", "a", "g", "e", "\"", ":", "{", "\"", "c", "o", "n", "t", "e", "n", "t", "\"", ":", "\"", "r", "e", "p", "l", "y", "\"", "}", "}">>

LineLongUser == <<"{", "\"", "t", "y", "p", "e", "\"", ":", "\"", "u", "s", "e", "r", "\"", ",", "\"", "t", "e", "x", "t", "\"", ":", "\"">> \o [k \in 1..400 |-> "u"] \o <<"\"", "}">>

LineLongAssistant == <<"{", "\"", "t", "y", "p", "e", "\"", ":", "\"", "a", "s", "s", "i", "s", "t", "a", "n", "t", "\"", ",", "\"", "t", "e", "x", "t", "\"", ":", "\"">> \o [k \in 1..400 |-> "a"] \o <<"\"", "}">>

SumLines == {LineBlank, LineGarbage, LineNumber, LineBadObject, LineUser, LineAssistant,
             LineUserNestedAssistant, LineSummary, LineEmptyObject, LineMeta, LineModelName}

SumShortFiles == {CliFile(h, LineBlank, 0, <<>>) : h \in SeqsUpTo(SumLines, MaxLines)}

\* Files whose records hold more text than the search text takes
SumLongFiles ==
    {CliFile(<<>>, b, r, t) :
        b \in {LineLongUser, LineLongAssistant},
        r \in 7..MaxLongLines,
        t \in {<<>>, <<LineUser, LineShort>>}}

\* The k-th object of a long recovery, the u-th one being a user's
LongNumberedObj(k, u) ==
    JDict(<<Member(kRole, JStr(IF k = u THEN sUser ELSE sAssistant)),
            Member(<<"t", "e", "x", "t">>, JStr(DigitsOf(100 + k) \o [m \in 1..400 |-> "t"]))>>)

\* The k-th readable run of a long recovery: 300 characters
LongSnippet(k) == DigitsOf(100 + k) \o [m \in 1..297 |-> "s"]

SumLongBlobs ==
    {DesktopBlob([k \in 1..n |-> LongNumberedObj(k, u)], <<>>) : n \in {8, 21}, u \in {0, 3}}
    \cup {DesktopBlob(<<>>, [k \in 1..n |-> LongSnippet(k)]) : n \in {9, 10}}

SumInit ==
    /\ \/ /\ sum_source = "claude_cli"
          /\ \/ /\ sum_artifact \in SumShortFiles \cup SumLongFiles
                /\ sum_rel = <<"-", "c", "-", "p", "/", "s", ".", "j", "s", "o", "n", "l">>
             \/ /\ sum_artifact \in {CliFile(<<>>, LineBlank, 0, <<>>),
                                      CliFile(<<LineMeta>>, LineBlank, 0, <<>>)}
                /\ sum_rel \in {<<"s", ".", "j", "s", "o", "n", "l">>,
                                <<"-", "d", "-", "q", "\\", "s", ".", "j", "s", "o", "n", "l">>}
       \/ /\ sum_source = "claude_desktop"
          /\ sum_artifact \in ShortDesktopBlobs \cup SumLongBlobs
          /\ sum_rel = <<"0", "0", "0", "0", "0", "5", ".", "l", "d", "b">>
    /\ sum_pc = "start"
    /\ sum_line = 0
    /\ search_chunks = <<>>
    /\ summary = NewSummary(<<>>)

\* summarize_session dispatches on the source type; lines 500-524
summarize_cli_session ==
    /\ sum_pc = "start"
    /\ sum_source = "claude_cli"
    /\ summary' = NewSummary(ProjectOfPath(sum_rel))
    /\ sum_pc' = "cli_loop"
    /\ UNCHANGED <<sum_source, sum_artifact, sum_rel, sum_line, search_chunks>>

SumCanReadLine == sum_pc = "cli_loop" /\ sum_line < NumLines(sum_artifact)

SumNextLine == LineAt(sum_artifact, sum_line + 1)

SumParseLine(line) ==
    IF is_probably_textual_json_line(line) THEN json_loads(line) ELSE ParseFail

\* Lines 526-531: a line that is no object, or that json.loads refuses, is skipped
SumSkipLine ==
    /\ SumCanReadLine
    /\ ~SumParseLine(SumNextLine).ok
    /\ sum_line' = sum_line + 1
    /\ UNCHANGED <<sum_source, sum_artifact, sum_rel, sum_pc, search_chunks, summary>>

\* Lines 532-553: a record fills the fields that are still empty, and the
\* loop is left once there is a first user text and the search text is full
\* (the record, its harvest and its flat text are bound once, as the code's
\* obj, texts and text are)
SumRecord ==
    /\ SumCanReadLine
    /\ \E parsed \in {SumParseLine(SumNextLine)} :
          /\ parsed.ok
          /\ \E harvest \in {extract_text_recursive(parsed.val)} :
                \E flat \in {FlatText(harvest)} :
                   LET obj == parsed.val
                       first_user ==
                           IF harvest # <<>> /\ guess_role(obj) = "user"
                                             /\ summary.first_user_text = <<>>
                           THEN Prefix(flat, 180)
                           ELSE summary.first_user_text
                       chunks ==
                           IF harvest # <<>> /\ Len(Join(<<" ">>, search_chunks)) < search_limit
                           THEN Append(search_chunks, Prefix(flat, 320))
                           ELSE search_chunks
                   IN  /\ summary' = [summary EXCEPT
                                         !.started_at = IF @ = TsEmpty
                                                        THEN extract_ts_from_obj(obj) ELSE @,
                                         !.model = IF @ = <<>> THEN ModelOf(obj) ELSE @,
                                         !.cwd = IF @ = <<>> /\ IsStr(Get(obj, <<"c", "w", "d">>))
                                                 THEN Get(obj, <<"c", "w", "d">>).v ELSE @,
                                         !.first_user_text = first_user]
                       /\ search_chunks' = chunks
                       /\ sum_pc' = IF first_user # <<>>
                                       /\ Len(Join(<<" ">>, chunks)) >= search_limit
                                    THEN "cli_end" ELSE "cli_loop"
    /\ sum_line' = sum_line + 1
    /\ UNCHANGED <<sum_source, sum_artifact, sum_rel>>

\* Lines 557-559, at the end of the file or after the break
SumCliReturn ==
    /\ \/ sum_pc = "cli_loop" /\ sum_line = NumLines(sum_artifact)
       \/ sum_pc = "cli_end"
    /\ summary' = [summary EXCEPT
                      !.project = project_display_label(JStr(summary.project), JStr(summary.cwd)),
                      !.search_text = Join(<<" ">>, search_chunks)]
    /\ sum_pc' = "returned"
    /\ UNCHANGED <<sum_source, sum_artifact, sum_rel, sum_line, search_chunks>>

\* Lines 584-599: the summary of the recovered objects
ObjectSummary(recovered) ==
    LET parts(k) == extract_text_recursive(recovered[k])
        merged == Concat([k \in 1..Len(recovered) |->
                            IF parts(k) # <<>> THEN <<Prefix(FlatText(parts(k)), 320)>> ELSE <<>>])
        users == {k \in 1..Len(recovered) : parts(k) # <<>> /\ guess_role(recovered[k]) = "user"}
        stamped == {k \in 1..Len(recovered) : extract_ts_from_obj(recovered[k]) # TsEmpty}
    IN  [NewSummary(<<"(", "d", "e", "s", "k", "t", "o", "p", ")">>) EXCEPT
            !.started_at = IF stamped = {} THEN TsEmpty
                           ELSE extract_ts_from_obj(recovered[MinOf(stamped)]),
            !.first_user_text = IF users # {} THEN Prefix(FlatText(parts(MinOf(users))), 180)
                                ELSE IF merged # <<>> THEN Prefix(merged[1], 180)
                                ELSE <<>>,
            !.search_text = Join(<<" ">>, Prefix(merged, 20))]

\* Lines 601-604: the summary of the readable runs
SnippetSummary(snippets) ==
    [NewSummary(<<"(", "d", "e", "s", "k", "t", "o", "p", ")">>) EXCEPT
        !.first_user_text = IF snippets # <<>> THEN Prefix(snippets[1], 180) ELSE <<>>,
        !.search_text = Join(<<" ">>, snippets)]

summarize_desktop_blob ==
    /\ sum_pc = "start"
    /\ sum_source = "claude_desktop"
    /\ summary' = IF sum_artifact.objs # <<>>
                  THEN ObjectSummary(sum_artifact.objs)
                  ELSE SnippetSummary(sum_artifact.snippets)
    /\ sum_pc' = "returned"
    /\ UNCHANGED <<sum_source, sum_artifact, sum_rel, sum_line, search_chunks>>

\* Lines 578-582: the file cannot be read, the summary is returned as it is
SumReadFails ==
    /\ sum_pc = "start"
    /\ sum_source = "claude_desktop"
    /\ summary' = NewSummary(<<"(", "d", "e", "s", "k", "t", "o", "p", ")">>)
    /\ sum_pc' = "returned"
    /\ UNCHANGED <<sum_source, sum_artifact, sum_rel, sum_line, search_chunks>>

-----------------------------------------------------------------------------
(* Specifications                                                          *)

vars == <<loadVars, tsVars, roleVars, recVars, textVars, labelVars, sumVars>>

LoadIdle ==
    /\ source_type = "none"
    /\ artifact = <<>>
    /\ pc = "idle"
    /\ line_no = 0
    /\ raw_count = 0
    /\ events = <<>>
    /\ result = [events |-> <<>>, raw_line_count |-> 0]

TsIdle == ts_in = <<>> /\ ts_out = <<>>

RoleIdle == role_obj = JNull /\ role_ret = "idle"

RecoverIdle ==
    /\ raw = <<>> /\ limit = 0 /\ texts = <<>> /\ text_no = 0 /\ rpc = "idle"
    /\ i = 0 /\ j = 0 /\ start = 0 /\ depth = 0 /\ in_str = FALSE /\ esc = FALSE
    /\ out = <<>> /\ chunk_no = 0 /\ seen = {} /\ objs = <<>>
    /\ obj_no = 0 /\ bytes_seen = {} /\ bytes_out = <<>>
    /\ examined = {} /\ revisited = {} /\ emitted = {}

TextIdle == text_fn = "none" /\ text_arg = JNull /\ text_ret = <<>> /\ text_pc = "idle"

LabelIdle ==
    label_project = JNull /\ label_cwd = JNull /\ label_ret = <<>> /\ label_pc = "idle"

SumIdle ==
    /\ sum_source = "none" /\ sum_artifact = <<>> /\ sum_rel = <<>> /\ sum_pc = "idle"
    /\ sum_line = 0 /\ search_chunks = <<>> /\ summary = NewSummary(<<>>)

\* One call of load_session_events on one artifact
Init == LoadInit /\ TsIdle /\ RoleIdle /\ RecoverIdle /\ TextIdle /\ LabelIdle /\ SumIdle

LoadOnly == UNCHANGED <<tsVars, roleVars, recVars, textVars, labelVars, sumVars>>

Next ==
    \/ load_session_events /\ LoadOnly
    \/ CliSkipLine /\ LoadOnly
    \/ CliRaise /\ LoadOnly
    \/ CliAppend /\ LoadOnly
    \/ CliReturn /\ LoadOnly
    \/ load_desktop_events /\ LoadOnly

Spec == Init /\ [][Next]_vars

\* Calls of _iso_from_ts
InitTs == TsInit /\ LoadIdle /\ RoleIdle /\ RecoverIdle /\ TextIdle /\ LabelIdle /\ SumIdle

NextTs == Normalize /\ UNCHANGED <<loadVars, roleVars, recVars, textVars, labelVars, sumVars>>

SpecTs == InitTs /\ [][NextTs]_vars

\* Calls of _guess_role
InitRole == RoleInit /\ LoadIdle /\ TsIdle /\ RecoverIdle /\ TextIdle /\ LabelIdle /\ SumIdle

NextRole == GuessRole /\ UNCHANGED <<loadVars, tsVars, recVars, textVars, labelVars, sumVars>>

SpecRole == InitRole /\ [][NextRole]_vars

\* Calls of _extract_json_objects_from_bytes
InitRecover == RecoverInit /\ LoadIdle /\ TsIdle /\ RoleIdle /\ TextIdle /\ LabelIdle /\ SumIdle

RecoverOnly == UNCHANGED <<loadVars, tsVars, roleVars, textVars, labelVars, sumVars>>

\* The steps of _extract_json_candidates_balanced
extract_json_candidates_balanced ==
    \/ ScanSkip /\ RecoverOnly
    \/ ScanOpen /\ RecoverOnly
    \/ ScanInner /\ RecoverOnly
    \/ ScanEof /\ RecoverOnly
    \/ ScanReturn /\ RecoverOnly

NextRecover ==
    \/ extract_json_objects_from_bytes /\ RecoverOnly
    \/ BytesSkipText /\ RecoverOnly
    \/ extract_json_objects_from_text /\ RecoverOnly
    \/ extract_json_candidates_balanced
    \/ TextChunk /\ RecoverOnly
    \/ TextReturn /\ RecoverOnly
    \/ BytesMerge /\ RecoverOnly
    \/ BytesNextText /\ RecoverOnly
    \/ BytesReturn /\ RecoverOnly

SpecRecover == InitRecover /\ [][NextRecover]_vars

\* The same calls, in which a scan that has a step to take takes it
SpecRecoverFair == SpecRecover /\ WF_vars(extract_json_candidates_balanced)

\* Calls of _extract_claude_message_text and of _extract_text_recursive
InitText == TextInit /\ LoadIdle /\ TsIdle /\ RoleIdle /\ RecoverIdle /\ LabelIdle /\ SumIdle

TextOnly == UNCHANGED <<loadVars, tsVars, roleVars, recVars, labelVars, sumVars>>

NextText ==
    \/ MessageText /\ TextOnly
    \/ Harvest /\ TextOnly

SpecText == InitText /\ [][NextText]_vars

\* Calls of _project_display_label
InitLabel == LabelInit /\ LoadIdle /\ TsIdle /\ RoleIdle /\ RecoverIdle /\ TextIdle /\ SumIdle

NextLabel == ProjectLabel /\ UNCHANGED <<loadVars, tsVars, roleVars, recVars, textVars, sumVars>>

SpecLabel == InitLabel /\ [][NextLabel]_vars

\* One call of summarize_session on one artifact
InitSum ==
    SumInit /\ LoadIdle /\ TsIdle /\ RoleIdle /\ RecoverIdle /\ TextIdle /\ LabelIdle

SumOnly == UNCHANGED <<loadVars, tsVars, roleVars, recVars, textVars, labelVars>>

NextSum ==
    \/ summarize_cli_session /\ SumOnly
    \/ SumSkipLine /\ SumOnly
    \/ SumRecord /\ SumOnly
    \/ SumCliReturn /\ SumOnly
    \/ summarize_desktop_blob /\ SumOnly
    \/ SumReadFails /\ SumOnly

SpecSum == InitSum /\ [][NextSum]_vars

-----------------------------------------------------------------------------
(* The claims                                                              *)

\* C1: the event list that load_cli_events or load_desktop_events returns has at
\* most MAX_EVENTS elements, whatever the artifact.
C1_EventCap == pc = "returned" => Len(result.events) <= MAX_EVENTS

\* C1, witness: a recovery of MAX_EVENTS objects, whose MAX_EVENTS + 1 events
\* (the notice first) are cut to MAX_EVENTS on return.
C1_CutAtCap ==
    /\ pc = "returned"
    /\ source_type = "claude_desktop"
    /\ Len(events) > MAX_EVENTS
    /\ Len(result.events) = MAX_EVENTS

\* C2 (as claimed): load_cli_events never raises; a line that is blank, is
\* not JSON, or is JSON but no object is skipped and the loop goes on.
C2_CliNeverRaises == source_type = "claude_cli" => pc # "raised"

C8_AnyScaleAgrees == (Len(ts_in) = 2 /\ Len(ts_out) = 2) => ts_out[1] = ts_out[2]

\* C8: _iso_from_ts(1700000000) and _iso_from_ts(1700000000000) are the same
\* instant; a second count s with 10^9 < s < 10^12 and s * 1000 normalise to the
\* same result.
C8_SecondsAndMillisAgree ==
    (Len(ts_in) = 2 /\ Len(ts_out) = 2)
    => /\ (NumGt(ts_in[1].v, <<"1", "0", "0", "0", "0", "0", "0", "0", "0", "0">>) /\ NumGt(MsThreshold, ts_in[1].v))
            => ts_out[1] = ts_out[2]
       /\ ts_in[1].v = <<"1", "7", "0", "0", "0", "0", "0", "0", "0", "0">>
            => ts_out = <<TsInstant(<<"1", "7", "0", "0", "0", "0", "0", "0", "0", "0">>, <<"0", "0", "0">>),
                          TsInstant(<<"1", "7", "0", "0", "0", "0", "0", "0", "0", "0">>, <<"0", "0", "0">>)>>

\* C8, witness: both calls of the example made, each giving an instant.
C8_ExampleNormalised ==
    /\ ts_in = <<JNum(<<"1", "7", "0", "0", "0", "0", "0", "0", "0", "0">>), JNum(<<"1", "7", "0", "0", "0", "0", "0", "0", "0", "0", "0", "0", "0">>)>>
    /\ Len(ts_out) = 2
    /\ ts_out[2].k = "instant"

\* What C9 says of an int n: milliseconds from 10^12 on, 10^12 included
C9_Claimed(n) ==
    IF NumGt(n, MsThreshold) \/ n = MsThreshold
    THEN FromTimestamp(DivThousand(n), ModThousand(n))
    ELSE FromTimestamp(n, <<"0", "0", "0">>)

\* C9 (as claimed): every int n >= 10^12, and every string of 10 to 16 digits
\* with such a value, is taken as milliseconds and divided by 1000; every
\* smaller one is taken as seconds.
C9_ThresholdInclusive ==
    \A k \in 1..Len(ts_out) :
        /\ IsNum(ts_in[k]) => ts_out[k] = C9_Claimed(ts_in[k].v)
        /\ (IsStr(ts_in[k]) /\ IsEpochDigits(ts_in[k].v))
            => ts_out[k] = C9_Claimed(Canon(ts_in[k].v))

\* The alias table of the role fields, as the specification gives it
C10_Alias(v) ==
    IF ~IsStr(v) THEN "none"
    ELSE IF Lower(v.v) \in {<<"u", "s", "e", "r">>, <<"h", "u", "m", "a", "n">>} THEN "user"
    ELSE IF Lower(v.v) \in {<<"a", "s", "s", "i", "s", "t", "a", "n", "t">>, <<"c", "l", "a", "u", "d", "e">>, <<"a", "i">>} THEN "assistant"
    ELSE IF Lower(v.v) \in {<<"d", "e", "v", "e", "l", "o", "p", "e", "r">>, <<"d", "e", "v">>} THEN "developer"
    ELSE IF Lower(v.v) = <<"s", "y", "s", "t", "e", "m">> THEN "system"
    ELSE "none"

\* The alias table of the type discriminant
C10_TypeAlias(v) ==
    IF ~IsStr(v) THEN "none"
    ELSE IF Lower(v.v) \in {<<"u", "s", "e", "r">>, <<"h", "u", "m", "a", "n", "_", "m", "e", "s", "s", "a", "g", "e">>, <<"h", "u", "m", "a", "n">>} THEN "user"
    ELSE IF Lower(v.v) \in {<<"a", "s", "s", "i", "s", "t", "a", "n", "t">>, <<"a", "s", "s", "i", "s", "t", "a", "n", "t", "_", "m", "e", "s", "s", "a", "g", "e">>} THEN "assistant"
    ELSE IF Lower(v.v) \in {<<"s", "y", "s", "t", "e", "m">>, <<"s", "y", "s", "t", "e", "m", "_", "m", "e", "s", "s", "a", "g", "e">>} THEN "system"
    ELSE "none"

\* The candidates of the chain, in the order of their priority
C10_Chain(obj) ==
    << IF IsDict(Get(obj, <<"m", "e", "s", "s", "a", "g", "e">>))
       THEN C10_Alias(Get(Get(obj, <<"m", "e", "s", "s", "a", "g", "e">>), <<"r", "o", "l", "e">>)) ELSE "none",
       C10_Alias(Get(obj, <<"r", "o", "l", "e">>)),
       C10_Alias(Get(obj, <<"s", "e", "n", "d", "e", "r">>)),
       C10_Alias(Get(obj, <<"a", "u", "t", "h", "o", "r">>)),
       C10_TypeAlias(Get(obj, <<"t", "y", "p", "e">>)),
       "system" >>

\* C10: _guess_role returns one of the four roles, and the role of the first rule
\* that matches: the nested message role, then the top-level role, sender and
\* author, then the type discriminant, then system.
C10_PriorityChain ==
    role_ret \notin {"idle", "pending"}
    => /\ role_ret \in {"user", "assistant", "developer", "system"}
       /\ IF IsDict(role_obj)
          THEN \E k \in 1..6 :
                  /\ C10_Chain(role_obj)[k] = role_ret
                  /\ \A m \in 1..(k - 1) : C10_Chain(role_obj)[m] = "none"
          ELSE role_ret = "system"

\* C10, witness: top-level role "system", nested message role "user": user.
C10_NestedWins ==
    /\ role_ret = "user"
    /\ IsDict(role_obj)
    /\ Get(role_obj, kRole) = JStr(sSystem)
    /\ Get(Get(role_obj, kMessage), kRole) = JStr(sUser)


\* C4: _extract_json_candidates_balanced terminates on every text: no position
\* is examined twice by the inner scan, every iteration of the outer scan moves
\* i forward (by one character when it skips, to just after the last position
\* the inner scan reached when it opened a span), and every scan that starts
\* returns.
C4_LinearScan ==
    /\ [](revisited = {})
    /\ [][(rpc = "outer" /\ rpc' = "outer") => i' = i + 1]_vars
    /\ [][(rpc = "inner" /\ rpc' = "outer") => (i' = j + 1 /\ i' > i)]_vars
    /\ (rpc = "outer") ~> (rpc = "chunks")

\* C4, witness: a scan has returned with a candidate, having opened spans and
\* skipped other characters.
C4_ScanReturned ==
    /\ rpc = "chunks"
    /\ Len(out) > 0
    /\ examined # {}
    /\ Cardinality(examined) < Len(text)

\* What C5 says of a returned object: it is a dict, the parse of an emitted
\* candidate
C5_Parsed(o) ==
    /\ IsDict(o)
    /\ \E c \in emitted : LET parsed == json_loads(c) IN parsed.ok /\ parsed.val = o

\* C5: every object returned by _extract_json_objects_from_text and by
\* _extract_json_objects_from_bytes is the successful parse of an emitted
\* candidate as a JSON object.
C5_ReturnedAreParsedCandidates ==
    /\ \A k \in 1..Len(objs) : C5_Parsed(objs[k])
    /\ \A k \in 1..Len(bytes_out) : C5_Parsed(bytes_out[k])

\* C5, witness: an object is returned from a blob in which another candidate,
\* with a marker, failed to parse.
C5_RecoveredBesideFailure ==
    /\ rpc = "done"
    /\ Len(bytes_out) > 0
    /\ \E c \in emitted : HasMarker(c) /\ ~json_loads(c).ok

\* The string literals of t[lo..hi], read without the scanner: a literal opens
\* at the first quote and closes at the next quote that an even number of
\* backslashes precedes; <<o, c>> are its two quotes (c = hi + 1 when it does
\* not close by hi)
RECURSIVE C6_StringSpans(_, _, _)
C6_StringSpans(t, lo, hi) ==
    LET opens == {p \in lo..hi : t[p] = "\""}
    IN  IF opens = {} THEN {}
        ELSE LET o == MinOf(opens)
                 closes == {q \in (o + 1)..hi :
                               t[q] = "\"" /\ BackslashRun(t, o + 1, q) % 2 = 0}
                 c == IF closes = {} THEN hi + 1 ELSE MinOf(closes)
             IN  {<<o, c>>} \cup C6_StringSpans(t, c + 1, hi)

\* The braces of t[lo..hi] outside string literals: a position lies in a
\* literal from just after its opening quote to its closing quote
C6_Braces(t, lo, hi) ==
    LET spans == C6_StringSpans(t, lo, hi)
    IN  {p \in lo..hi : t[p] \in {"{", "}"} /\ ~\E sp \in spans : sp[1] < p /\ p <= sp[2]}

\* The brace that closes the one at lo, counting only braces outside string
\* literals (0 when there is none)
C6_Close(t, lo) ==
    LET braces == C6_Braces(t, lo, Len(t))
        closers == {p \in braces :
                       /\ t[p] = "}"
                       /\ Cardinality({q \in braces : q <= p /\ t[q] = "{"})
                            = Cardinality({q \in braces : q <= p /\ t[q] = "}"})}
    IN  IF closers = {} THEN 0 ELSE MinOf(closers)

\* C6: in the inner scan, after the characters start..j-1, the string state and
\* the depth are those of the quotes and braces outside string literals (a
\* brace or an escaped quote inside a literal changes neither), and every
\* candidate a scan returns ends at the brace that closes its opening brace
\* when only braces outside literals are counted.
C6_StringsDoNotPerturb ==
    /\ rpc = "inner" =>
         LET braces == C6_Braces(text, start + 1, j)
         IN  /\ in_str = (\E sp \in C6_StringSpans(text, start + 1, j) : sp[2] = j + 1)
             /\ Cardinality({q \in braces : text[q] = "{"})
                  = Cardinality({q \in braces : text[q] = "}"}) + depth
    /\ rpc = "chunks" =>
         \A k \in 1..Len(out) :
             out[k].start + Len(out[k].chunk) = C6_Close(text, out[k].start + 1)

\* C6, witness: the candidate with braces, an escaped quote and an escaped
\* backslash inside its literals is emitted whole.
C6_TrickyEmitted ==
    /\ rpc = "chunks"
    /\ \E k \in 1..Len(out) : out[k].chunk = TrickyObject

\* The distinct objects under the blob: the canonical forms of the candidates,
\* of either decoding, that hold a marker and parse to a dict
C7_Underlying ==
    {json_dumps(json_loads(c).val) :
        c \in {d \in emitted : HasMarker(d) /\ json_loads(d).ok /\ IsDict(json_loads(d).val)}}

\* C7 (as claimed): the result of _extract_json_objects_from_bytes has as many
\* objects as there are distinct objects under the two decodings, when these
\* are at most limit: none is counted twice, no two are merged.
C7_DistinctObjectsCounted ==
    (rpc = "done" /\ Cardinality(C7_Underlying) <= limit)
        => Len(bytes_out) = Cardinality(C7_Underlying)

\* A string field of a block: its trimmed text, and nothing when the field
\* is absent or is not a string
C11_Field(item, key) ==
    IF IsStr(Get(item, key)) THEN Strip(Get(item, key).v) ELSE <<>>

\* The rendering of one block as the claim words it
C11_Rendering(item) ==
    IF IsStr(item) THEN Strip(item.v)
    ELSE IF ~IsDict(item) THEN <<>>
    ELSE LET typ == Get(item, kType)
             tool_input == Get(item, <<"i", "n", "p", "u", "t">>)
         IN  IF typ = JStr(<<"t", "e", "x", "t">>) THEN C11_Field(item, <<"t", "e", "x", "t">>)
             ELSE IF typ = JStr(<<"t", "h", "i", "n", "k", "i", "n", "g">>) THEN C11_Field(item, <<"t", "h", "i", "n", "k", "i", "n", "g">>)
             ELSE IF typ = JStr(<<"t", "o", "o", "l", "_", "u", "s", "e">>)
             THEN Strip(<<"[", "t", "o", "o", "l", "_", "u", "s", "e", "]", " ">> \o C11_Field(item, <<"n", "a", "m", "e">>) \o <<" ">>
                        \o (IF IsDict(tool_input) THEN json_dumps(tool_input)
                            ELSE C11_Field(item, <<"i", "n", "p", "u", "t">>)))
             ELSE IF typ = JStr(<<"t", "o", "o", "l", "_", "r", "e", "s", "u", "l", "t">>)
             THEN IF Strip(JoinedText(Get(item, <<"c", "o", "n", "t", "e", "n", "t">>))) # <<>>
                  THEN <<"[", "t", "o", "o", "l", "_", "r", "e", "s", "u", "l", "t", "]", " ">> \o Strip(JoinedText(Get(item, <<"c", "o", "n", "t", "e", "n", "t">>)))
                  ELSE <<>>
             ELSE Strip(JoinedText(item))

C11_Renderings(content) ==
    SelectSeq([k \in 1..Len(content.v) |-> C11_Rendering(content.v[k])],
              LAMBDA r : r # <<>>)

\* C11: for a message record whose content is a list of blocks, the text
\* returned by _extract_claude_message_text is the newline-join, in block
\* order, of the renderings of the blocks that render to something (a field
\* that is absent or of the wrong type contributing nothing), and the text
\* harvested from the whole record when no block renders to anything.
C11_BlocksRendered ==
    (text_pc = "returned" /\ text_fn = "message" /\ IsDict(text_arg)
        /\ IsList(Get(text_arg, <<"c", "o", "n", "t", "e", "n", "t">>)))
    => LET record == text_arg
           rendered == C11_Renderings(Get(record, <<"c", "o", "n", "t", "e", "n", "t">>))
       IN  text_ret = IF rendered # <<>> THEN Join(<<"\n">>, rendered)
                      ELSE Strip(JoinedText(record))

\* The example of the claim is rendered as the claim says
C11_Example ==
    extract_claude_message_text(Value(<<"{", "\"", "c", "o", "n", "t", "e", "n", "t", "\"", ":", "[", "{", "\"", "t", "y", "p", "e", "\"", ":", "\"", "t", "e", "x", "t", "\"", ",", "\"", "t", "e", "x", "t", "\"", ":", "\"", "a", "\"", "}", ",", "{", "\"", "t", "y", "p", "e", "\"", ":", "\"", "t", "o", "o", "l", "_", "u", "s", "e", "\"", ",", "\"", "n", "a", "m", "e", "\"", ":", "\"", "x", "\"", ",", "\"", "i", "n", "p", "u", "t", "\"", ":", "{", "\"", "k", "\"", ":", "1", "}", "}", "]", "}">>))
        = <<"a", "\n", "[", "t", "o", "o", "l", "_", "u", "s", "e", "]", " ", "x", " ", "{", "\"", "k", "\"", ":", " ", "1", "}">>


\* Every trimmed non-empty string found anywhere under a value
RECURSIVE C12_Strings(_)
C12_Strings(x) ==
    IF IsStr(x) THEN (IF Strip(x.v) # <<>> THEN {Strip(x.v)} ELSE {})
    ELSE IF IsList(x) THEN UNION {C12_Strings(x.v[k]) : k \in 1..Len(x.v)}
    ELSE IF IsDict(x) THEN UNION {C12_Strings(x.v[k].val) : k \in 1..Len(x.v)}
    ELSE {}

\* The keys the claims call metadata keys
ClaimedMetadataKeys == SkipKeys \cup {TsKeys[k] : k \in 1..Len(TsKeys)}

\* The strings that lie under no metadata key
RECURSIVE C12_Text(_)
C12_Text(x) ==
    IF IsStr(x) THEN (IF Strip(x.v) # <<>> THEN {Strip(x.v)} ELSE {})
    ELSE IF IsList(x) THEN UNION {C12_Text(x.v[k]) : k \in 1..Len(x.v)}
    ELSE IF IsDict(x)
    THEN UNION {IF x.v[k].k \in ClaimedMetadataKeys THEN {} ELSE C12_Text(x.v[k].val) :
                    k \in 1..Len(x.v)}
    ELSE {}

\* The place of a key among the content-priority keys, 0 for the other keys
C12_Rank(key) ==
    IF IsTextKey(key) THEN CHOOSE k \in 1..Len(TextKeys) : TextKeys[k] = key ELSE 0

\* Member a of a dict is to be harvested before member b
C12_Before(ms, a, b) ==
    \/ C12_Rank(ms[a].k) > 0 /\ C12_Rank(ms[b].k) = 0
    \/ C12_Rank(ms[a].k) > 0 /\ C12_Rank(ms[a].k) < C12_Rank(ms[b].k)
    \/ C12_Rank(ms[a].k) = 0 /\ C12_Rank(ms[b].k) = 0 /\ a < b

\* In the output ret, at every dict under x, the strings of a member that is
\* to be harvested before another one precede the strings of that other one
RECURSIVE C12_Ordered(_, _)
C12_Ordered(x, ret) ==
    IF IsList(x) THEN \A k \in 1..Len(x.v) : C12_Ordered(x.v[k], ret)
    ELSE IF IsDict(x)
    THEN /\ \A k \in 1..Len(x.v) : C12_Ordered(x.v[k].val, ret)
         /\ \A a, b \in 1..Len(x.v) :
               C12_Before(x.v, a, b) =>
                   \A p, q \in 1..Len(ret) :
                       (ret[p] \in C12_Strings(x.v[a].val)
                            /\ ret[q] \in C12_Strings(x.v[b].val)) => p < q
    ELSE TRUE

\* C12: in the output of _extract_text_recursive, at every dict of the
\* argument the text under the content-priority keys comes first, in the
\* order text, content, message, prompt, output, input, value, body, whatever
\* the dict's own key order, and the text of the other keys follows in the
\* dict's key order; all text under no metadata key is there, every string
\* of the output is non-empty and trimmed, and no leaf is there twice.
C12_PriorityKeysFirst ==
    (text_pc = "returned" /\ text_fn = "harvest")
    => /\ C12_Ordered(text_arg, text_ret)
       /\ C12_Text(text_arg) \subseteq {text_ret[k] : k \in 1..Len(text_ret)}
       /\ \A k \in 1..Len(text_ret) :
             text_ret[k] # <<>> /\ Strip(text_ret[k]) = text_ret[k]
       /\ \A p, q \in 1..Len(text_ret) : p # q => text_ret[p] # text_ret[q]

\* A dict with the keys note, body, text in that order was harvested as the
\* text of text, of body, of note
C12_ReorderedHarvest ==
    /\ text_pc = "returned" /\ text_fn = "harvest"
    /\ [k \in 1..Len(text_arg.v) |-> text_arg.v[k].k] = <<<<"n", "o", "t", "e">>, <<"b", "o", "d", "y">>, <<"t", "e", "x", "t">>>>
    /\ text_ret = <<<<"T">>, <<"B">>, <<"N">>>>


\* The strings that lie under a metadata key, at any depth
RECURSIVE C13_UnderMetadata(_)
C13_UnderMetadata(x) ==
    IF IsList(x) THEN UNION {C13_UnderMetadata(x.v[k]) : k \in 1..Len(x.v)}
    ELSE IF IsDict(x)
    THEN UNION {IF x.v[k].k \in ClaimedMetadataKeys
                THEN C12_Strings(x.v[k].val)
                ELSE C13_UnderMetadata(x.v[k].val) : k \in 1..Len(x.v)}
    ELSE {}

\* C13: no string of the output of _extract_text_recursive is a value stored
\* under a metadata key (type, id, uuid, role, sender, author, version, or a
\* key the timestamp extractor reads: timestamp, time, created_at, createdAt,
\* ts), at whatever depth the key lies.
C13_MetadataNeverHarvested ==
    (text_pc = "returned" /\ text_fn = "harvest")
    => \A k \in 1..Len(text_ret) : text_ret[k] \notin C13_UnderMetadata(text_arg)

\* The same for the keys that _extract_text_recursive itself skips
C13_SkipKeysNeverHarvested ==
    (text_pc = "returned" /\ text_fn = "harvest")
    => \A k \in 1..Len(text_ret) :
          text_ret[k] \in C13_UnderMetadata(text_arg)
              => text_ret[k] = <<"D", "1">>


\* The tokens of a dash-joined slug
C14_Tokens(slug) == NonEmpty(Split(Strip(slug), "-"))

C14_SingleLetter(token) == Len(token) = 1 /\ IsAlpha(token[1])

\* The tokens begin with a drive letter, or with the mount token and one
C14_DriveIndicator(tokens) ==
    \/ Len(tokens) >= 1 /\ C14_SingleLetter(tokens[1])
    \/ Len(tokens) >= 2 /\ Lower(tokens[1]) = <<"m", "n", "t">> /\ C14_SingleLetter(tokens[2])

\* The working directory, stripped, is /mnt/<letter>/<rest>
C14_MountForm(w) ==
    Len(w) >= 7 /\ SubSeq(w, 1, 5) = <<"/", "m", "n", "t", "/">> /\ IsAlpha(w[6]) /\ w[7] = "/"

C14_CwdGiven == IsStr(label_cwd) /\ Strip(label_cwd.v) # <<>>

\* The label is that of the working directory whatever the slug is, and
\* that of the slug whatever blank or missing working directory there is
C14_FromOneAlone ==
    IF C14_CwdGiven
    THEN \A slug \in {<<>>, <<"-", "d", "-", "x">>, <<"y">>} :
            project_display_label(JStr(slug), label_cwd) = label_ret
    ELSE /\ project_display_label(label_project, JNull) = label_ret
         /\ project_display_label(label_project, JStr(<<>>)) = label_ret
         /\ project_display_label(label_project, JStr(<<"\t", " ">>)) = label_ret

\* The three rules of the claim; plain says which working directories and
\* which slugs the rules are stated for
C14_Rules(plainCwd, plainSlug) ==
    LET w == Strip(label_cwd.v)
        tokens == C14_Tokens(label_project.v)
    IN  /\ (C14_CwdGiven /\ C14_MountForm(w) /\ plainCwd)
            => label_ret = <<UpperChar(w[6]), ":", "\\">> \o Replace(Suffix(w, 7), "/", "\\")
        /\ (~C14_CwdGiven /\ plainSlug /\ Len(tokens) >= 2 /\ C14_SingleLetter(tokens[1]))
            => label_ret = <<UpperChar(tokens[1][1]), ":", "\\">>
                               \o Join(<<"\\">>, Suffix(tokens, 1))
        /\ (~C14_CwdGiven /\ plainSlug /\ ~C14_DriveIndicator(tokens))
            => label_ret = Join(<<"\\">>, tokens)

C14_CwdExampleRewritten ==
    /\ label_pc = "returned"
    /\ label_cwd = JStr(<<"/", "m", "n", "t", "/", "c", "/", "U", "s", "e", "r", "s", "/", "m", "e">>)
    /\ label_ret = <<"C", ":", "\\", "U", "s", "e", "r", "s", "\\", "m", "e">>


\* The records of the artifact in the order they are met: the lines that
\* parse, the recovered objects
C15_Records ==
    IF sum_source = "claude_cli"
    THEN LET parsed == [k \in 1..NumLines(sum_artifact) |->
                           SumParseLine(LineAt(sum_artifact, k))]
             met == SelectSeq(parsed, LAMBDA r : r.ok)
         IN  [k \in 1..Len(met) |-> met[k].val]
    ELSE sum_artifact.objs

\* The first 180 characters of the text of the first record that is
\* classified as user and has harvested text; empty when there is none
C15_FirstUserRecordText(records) ==
    LET users == {k \in 1..Len(records) :
                     /\ guess_role(records[k]) = "user"
                     /\ extract_text_recursive(records[k]) # <<>>}
    IN  IF users = {} THEN <<>>
        ELSE Prefix(FlatText(extract_text_recursive(records[MinOf(users)])), 180)

\* In a returned summary first_user_text, when filled, is that text, and for
\* a line-delimited artifact it is that text
C15_FromFirstUser ==
    sum_pc = "returned"
    => /\ summary.first_user_text # <<>>
            => summary.first_user_text = C15_FirstUserRecordText(C15_Records)
       /\ sum_source = "claude_cli"
            => summary.first_user_text = C15_FirstUserRecordText(C15_Records)

C15_NeverChanged ==
    summary.first_user_text # <<>> => summary'.first_user_text = summary.first_user_text

\* C15: first_user_text has at most 180 characters, is taken from the first
\* record, in the order the records are met, that is classified as user and
\* has non-empty harvested text, is never changed once it is set, and is
\* never filled from a record that is not classified as user.
C15_FirstUserText ==
    /\ [](Len(summary.first_user_text) <= 180)
    /\ [][C15_NeverChanged]_vars
    /\ []C15_FromFirstUser

\* The same for the line-delimited artifacts alone
C15_CliFirstUserText ==
    /\ [](Len(summary.first_user_text) <= 180)
    /\ [][C15_NeverChanged]_vars
    /\ [](sum_source = "claude_cli" => C15_FromFirstUser)

\* C16: the search_text of a returned summary has at most search_limit
\* (2500) characters, for a line-delimited artifact and for an opaque-binary
\* one, on the path of the recovered objects and on that of the readable runs.
C16_SearchTextWithinBudget ==
    sum_pc = "returned" => Len(summary.search_text) <= search_limit


\* C17: the raw_line_count that load_cli_events returns is the number of
\* raw lines of the artifact, the lines after the one at which the event cap
\* was reached included.
C17_CountsEveryLine ==
    (pc = "returned" /\ source_type = "claude_cli")
    => result.raw_line_count = NumLines(artifact)

\* The lines up to the end of the loop are all counted
C17_CountsScannedLines ==
    (pc = "returned" /\ source_type = "claude_cli")
    => result.raw_line_count = line_no

\* The largest cut of a text in load_cli_events and load_desktop_events
LargestTextCut == 4000

C18_Kinds == {"message", "queue", "progress", "system", "snippet", "notice", "event"}

C18_Roles == {"user", "assistant", "developer", "system"}

\* C18: every returned event has one of the seven kinds, one of the four
\* roles, and a text no longer than a fixed cap, whatever the size of the
\* record it comes from (the cap is taken as the largest cut in the code).
C18_EventsCapped ==
    pc = "returned"
    => \A k \in 1..Len(result.events) :
          /\ result.events[k].kind \in C18_Kinds
          /\ result.events[k].role \in C18_Roles
          /\ Len(result.events[k].text) <= LargestTextCut

\* The kinds and the roles alone
C18_KindsAndRoles ==
    pc = "returned"
    => \A k \in 1..Len(result.events) :
          result.events[k].kind \in C18_Kinds /\ result.events[k].role \in C18_Roles

\* The records of a line-delimited artifact, in the order of their lines
LoadedRecords ==
    LET parsed == [k \in 1..NumLines(artifact) |-> ParseLine(Strip(LineAt(artifact, k)))]
        met == SelectSeq(parsed, LAMBDA r : r.ok)
    IN  [k \in 1..Len(met) |-> met[k].val]

\* A step of load_cli_events takes the next line, and appends the event of
\* its record, and nothing else, when the line parses
C19_Step ==
    source_type = "claude_cli"
    => /\ line_no' \in {line_no, line_no + 1}
       /\ IF line_no' = line_no + 1 /\ ParseLine(NextLine).ok /\ pc' # "raised"
          THEN events' = Append(events, CliEvent(ParseLine(NextLine).val))
          ELSE events' = events

\* C19: load_cli_events appends exactly one event per parsed record until
\* the cap is reached, in the order of the source lines: the i-th event is
\* that of the i-th parsed record, none moved, repeated or left out.
C19_OneEventPerRecordInOrder ==
    /\ [][C19_Step]_vars
    /\ []((pc = "returned" /\ source_type = "claude_cli" /\ artifact.reps = 0)
            => result.events = [k \in 1..Len(LoadedRecords) |-> CliEvent(LoadedRecords[k])])
    /\ []((pc = "returned" /\ source_type = "claude_cli")
            => result.events = events /\ Len(events) <= MAX_EVENTS)

\* An assistant's record and then a user's were returned as two events
C19_TwoRecordsReturned ==
    /\ pc = "returned"
    /\ source_type = "claude_cli"
    /\ artifact.head = <<LineAssistant, LineUser>>
    /\ Len(result.events) = 2
    /\ result.events[1].role = "assistant"
    /\ result.events[2].role = "user"

\* C20: the role of the event of a record is the role _guess_role gives to
\* the record, also when the role of the nested message and the top-level
\* type disagree.
C20_EventRoleIsGuessedRole ==
    (pc = "returned" /\ source_type = "claude_cli" /\ artifact.reps = 0)
    => \A k \in 1..Len(result.events) :
          result.events[k].role = guess_role(LoadedRecords[k])

\* The first position after a candidate of out
C21_SpanEnd(e) == e.start + Len(e.chunk)

\* The candidates emitted so far are the spans they were opened at, lie one
\* after the other in the text without overlap, and no position the inner scan
\* examined (the consumed spans: emitted, rejected or abandoned) is ahead of
\* the outer scan
C21_SpansBehind ==
    /\ \A k \in 1..Len(out) :
          /\ out[k].chunk = SubSeq(text, out[k].start + 1, C21_SpanEnd(out[k]))
          /\ \A m \in 1..Len(out) : k < m => C21_SpanEnd(out[k]) <= out[m].start
    /\ rpc = "outer" =>
          /\ \A p \in examined : p < i
          /\ \A k \in 1..Len(out) : C21_SpanEnd(out[k]) <= i
    /\ rpc = "inner" =>
          /\ \A p \in examined : p < j
          /\ \A k \in 1..Len(out) : C21_SpanEnd(out[k]) <= start

\* Once a span has been abandoned at the end of the text (the only way for i
\* to pass the end of the text), the span opened last is that one and every
\* candidate emitted from the text ends before its opening brace
C21_NothingAfterAbandoned ==
    (rpc \in {"outer", "chunks"} /\ i > Len(text)) =>
        /\ text[start + 1] = "{"
        /\ j = Len(text)
        /\ \A k \in 1..Len(out) : C21_SpanEnd(out[k]) <= start

\* One step of the scan: a span is opened only outside the consumed spans, a
\* candidate is emitted only by the closing brace of the span it was opened
\* at, and a span that reaches the end of the text is abandoned with nothing
\* emitted and the whole text consumed
C21_Step ==
    /\ (rpc = "outer" /\ rpc' = "inner") => (start' = i /\ start' \notin examined)
    /\ Len(out') > Len(out) =>
          /\ rpc = "inner" /\ j < Len(text) /\ text[j + 1] = "}"
          /\ out' = Append(out, [start |-> start, chunk |-> SubSeq(text, start + 1, j + 1)])
    /\ (rpc = "inner" /\ j >= Len(text)) => (out' = out /\ i' = Len(text) + 1)
    /\ (rpc = "outer" /\ i > Len(text)) => (out' = out /\ i' = i /\ rpc' = "chunks")

\* C21: in _extract_json_candidates_balanced every span opened at a "{" is
\* consumed, whether its candidate is emitted, rejected for its length or
\* abandoned at the end of the text: the emitted candidates do not overlap and
\* come in increasing start position, an object nested in a consumed span is
\* never emitted on its own, and after a "{" whose object never closes no
\* later candidate is emitted from that text.
C21_SpansConsumed ==
    /\ [](rpc \in {"outer", "inner", "chunks"} => C21_SpansBehind /\ C21_NothingAfterAbandoned)
    /\ [][C21_Step]_vars

\* C21, witness: the scan of a text has returned two candidates, the first
\* with an object nested in it that was not emitted, after rejecting a span of
\* two characters and abandoning a span whose opening brace a whole object
\* follows.
C21_EmittedRejectedAbandoned ==
    /\ rpc = "chunks"
    /\ text = ConsumedSpans
    /\ i = Len(text) + 1
    /\ Len(out) = 2
    /\ out[1] = [start |-> 0, chunk |-> NestedTwice]
    /\ out[2] = [start |-> Len(NestedTwice) + 2, chunk |-> ShortObject]
    /\ start = Len(NestedTwice) + 2 + Len(ShortObject)
    /\ SubSeq(text, start + 2, Len(text)) = ShortObject
    /\ {1, Len(NestedTwice), start + 1} \subseteq examined

=============================================================================
